---- MODULE Spec2Model ----
(***************************************************************************)
(* A model of the stacked-diffs ("sd") execution engine:                   *)
(* src/stacked_diffs/commands/run.py with the persistence layer of         *)
(* src/stacked_diffs/utils/metadata.py, the graph helpers of               *)
(* src/stacked_diffs/utils/git.py and the add command.                     *)
(*                                                                         *)
(* One sd process runs at a time.  pc is the position of the running       *)
(* process inside handle_run; "idle" means that no process is running.     *)
(* Every shell command and every git checkout is one step whose outcome    *)
(* (exit status) is chosen by the environment.                             *)
(***************************************************************************)
EXTENDS Integers, Sequences, FiniteSets, TLC

\* ---------------------------------------------------------------- bounds
\* Number of branch names the operator may create with `sd add`.
MaxBranches == 2
\* the longest children list of a hand-edited metadata file
MaxChildren == 2

\* ------------------------------------------------------------- constants
Trunk == "main"
NoneStr == "<None>"          \* Python None where a str is expected
TrueFlag == "<True>"         \* argparse const=True of --continue / --abort
NoResume == <<>>             \* Graph.resume_state is None
NoAdd == <<>>                \* no handle_add is between its load and its save

AllNames == <<"A", "B", "C", "D", "E">>
Names == {AllNames[i] : i \in 1..MaxBranches}

EmptyEnv == [k \in {} |-> ""]

\* dict.update: keys of b win
DictUpdate(a, b) ==
  [k \in (DOMAIN a) \cup (DOMAIN b) |-> IF k \in DOMAIN b THEN b[k] ELSE a[k]]

\* Python truthiness of an optional string
Truthy(s) == s # NoneStr /\ s # ""

InSeq(x, s) == \E i \in 1..Len(s) : s[i] = x

MinOf(S) == CHOOSE x \in S : \A y \in S : x <= y

\* ------------------------------------------------------- default aliases
DEFAULT_ALIASES ==
  [update |->
     [command |-> [run |-> "git rebase $SD_PARENT_BRANCH",
                   descendants_only |-> TRUE,
                   pre_flight |-> NoneStr,
                   post_flight |-> NoneStr,
                   start_from_root |-> FALSE],
      continue_cmd |-> "git rebase --continue",
      abort_cmd |-> "git rebase --abort",
      env |-> EmptyEnv],
   sync |->
     [command |-> [run |-> "git rebase $SD_TRUNK_BRANCH",
                   descendants_only |-> FALSE,
                   pre_flight |-> "git stash push ; git fetch $REMOTE ; git checkout $SD_TRUNK_BRANCH ; git reset --hard",
                   post_flight |-> "git checkout $SD_START_BRANCH ; git stash pop || true",
                   start_from_root |-> TRUE],
      continue_cmd |-> "git rebase --continue",
      abort_cmd |-> "git rebase --abort",
      env |-> [k \in {"REMOTE"} |-> "upstream"]]]

\* handle_alias_set: the Alias stored by
\* `sd alias set <name> --run .. [--post-flight ..] [--descendants-only] [--env K=V]`
user_alias(run, post_flight, descendants_only, env) ==
  [command |-> [run |-> run,
                descendants_only |-> descendants_only,
                pre_flight |-> NoneStr,
                post_flight |-> post_flight,
                start_from_root |-> FALSE],
   continue_cmd |-> NoneStr,
   abort_cmd |-> NoneStr,
   env |-> env]

\* .sd_aliases.json: one user alias, for the descendants with a post-flight
USER_ALIASES ==
  [k \in {"restack"} |->
     user_alias("git rebase $SD_PARENT_BRANCH", "git stash pop", TRUE, EmptyEnv)]

\* MetadataManager.get_all_aliases: user aliases over the defaults
get_all_aliases == DictUpdate(DEFAULT_ALIASES, USER_ALIASES)

\* alias_def is None
NoAlias == <<>>

\* ------------------------------------------------------------ the graph
\* Graph.branches is a dict: an insertion-ordered sequence of
\* [name, children] entries with distinct names.
BranchKeys(branches) == {branches[i].name : i \in 1..Len(branches)}

\* every name of the metadata: the keys and the listed children
GraphNames(branches) ==
  BranchKeys(branches) \cup
  UNION {{branches[i].children[k] : k \in 1..Len(branches[i].children)} :
           i \in 1..Len(branches)}

KeySeq(branches) == [i \in 1..Len(branches) |-> branches[i].name]

ChildrenOf(b, branches) ==
  LET i == CHOOSE j \in 1..Len(branches) : branches[j].name = b
  IN branches[i].children

\* git.find_parent: the first key whose children list contains the branch
find_parent(branch_name, branches) ==
  LET idx == {i \in 1..Len(branches) : InSeq(branch_name, branches[i].children)}
  IN IF idx = {} THEN NoneStr ELSE branches[MinOf(idx)].name

Diverges == "<diverges>"

\* git.find_stack_root: the upward walk; it has no visited set, so a walk
\* longer than the number of keys has entered a cycle and never returns.
RECURSIVE stack_root_walk(_, _, _)
stack_root_walk(current_branch_in_stack, graph, n) ==
  LET parent == find_parent(current_branch_in_stack, graph.branches)
  IN IF parent = NoneStr \/ parent = graph.trunk THEN current_branch_in_stack
     ELSE IF n > Len(graph.branches) THEN Diverges
     ELSE stack_root_walk(parent, graph, n + 1)

\* mutation: no upward walk, the branch is its own root
find_stack_root_no_walk(branch_name, graph) == branch_name

find_stack_root(branch_name, graph) ==
  IF branch_name = graph.trunk \/ branch_name \notin BranchKeys(graph.branches)
  THEN branch_name
  ELSE stack_root_walk(branch_name, graph, 0)

\* mutation: the children are visited in the reverse of their list order
get_children_for_traversal_reversed(branch_name, graph) ==
  LET kids == IF branch_name = graph.trunk
              THEN SelectSeq(KeySeq(graph.branches),
                             LAMBDA b : find_parent(b, graph.branches) = NoneStr)
              ELSE IF branch_name \in BranchKeys(graph.branches)
              THEN ChildrenOf(branch_name, graph.branches)
              ELSE <<>>
  IN [i \in 1..Len(kids) |-> kids[Len(kids) + 1 - i]]

\* run._get_children_for_traversal
get_children_for_traversal(branch_name, graph) ==
  IF branch_name = graph.trunk
  THEN SelectSeq(KeySeq(graph.branches),
                 LAMBDA b : find_parent(b, graph.branches) = NoneStr)
  ELSE IF branch_name \in BranchKeys(graph.branches)
  THEN ChildrenOf(branch_name, graph.branches)
  ELSE <<>>

PlanAction(b, p) == [branch |-> b, parent |-> p]

\* the while loop of run._build_traversal_plan
RECURSIVE traversal_loop(_, _, _, _)
traversal_loop(queue, visited, plan, graph) ==
  IF queue = <<>> THEN plan
  ELSE LET current_action == Head(queue)
           current_branch_name == current_action.branch
       IN IF current_branch_name \in visited
          THEN traversal_loop(Tail(queue), visited, plan, graph)
          ELSE LET visited2 == visited \cup {current_branch_name}
                   children_to_visit ==
                     SelectSeq(get_children_for_traversal(current_branch_name, graph),
                               LAMBDA c : c \notin visited2)
                   enq == [i \in 1..Len(children_to_visit) |->
                             PlanAction(children_to_visit[i], current_branch_name)]
               IN traversal_loop(Tail(queue) \o enq, visited2,
                                 Append(plan, current_action), graph)

\* mutation: the start branch is put in the plan before the loop and again by it
build_traversal_plan_start_twice(start_branch, graph, descendants_only) ==
  LET kids == get_children_for_traversal(start_branch, graph)
      queue == IF ~descendants_only
               THEN <<PlanAction(start_branch, graph.trunk)>>
               ELSE [i \in 1..Len(kids) |-> PlanAction(kids[i], start_branch)]
  IN <<PlanAction(start_branch, graph.trunk)>> \o traversal_loop(queue, {}, <<>>, graph)

\* variant: the start branch is always paired with the trunk
build_traversal_plan_trunk_parent(start_branch, graph, descendants_only) ==
  LET kids == get_children_for_traversal(start_branch, graph)
      queue == IF ~descendants_only
               THEN <<PlanAction(start_branch, graph.trunk)>>
               ELSE [i \in 1..Len(kids) |-> PlanAction(kids[i], start_branch)]
  IN traversal_loop(queue, {}, <<>>, graph)

\* mutation: descendants_only is ignored, the queue is always seeded with
\* the start branch
build_traversal_plan_ignoring_mode(start_branch, graph, descendants_only) ==
  LET parent_of_start ==
        IF find_parent(start_branch, graph.branches) # NoneStr
        THEN find_parent(start_branch, graph.branches) ELSE graph.trunk
  IN traversal_loop(<<PlanAction(start_branch, parent_of_start)>>, {}, <<>>, graph)

\* run._build_traversal_plan
build_traversal_plan(start_branch, graph, descendants_only) ==
  LET parent_of_start ==
        IF find_parent(start_branch, graph.branches) # NoneStr
        THEN find_parent(start_branch, graph.branches) ELSE graph.trunk
      kids == get_children_for_traversal(start_branch, graph)
      queue == IF ~descendants_only
               THEN <<PlanAction(start_branch, parent_of_start)>>
               ELSE [i \in 1..Len(kids) |-> PlanAction(kids[i], start_branch)]
  IN traversal_loop(queue, {}, <<>>, graph)


\* ------------------------------------------------------------ the state
VARIABLES
  disk_branches,     \* "branches" of .git/stacked_diffs_graph.json
  disk_resume,       \* "resume_state" of that file: NoResume or <<ResumeState>>
  head,              \* the branch checked out in the working tree
  pc,                \* position of the running sd process, "idle" if none
  args,              \* RunArgs of the running (or last) handle_run
  alias_def,         \* alias_def of handle_run: NoAlias or <<Alias>>
  graph,             \* handle_run's graph (loaded once at the start)
  resume_state,      \* handle_run's resume_state (loaded once at the start)
  start_branch,      \* start_branch used for post-flight and cleanup
  user_command,      \* _process_plan parameter
  alias_name,        \* _process_plan parameter
  custom_env_vars,   \* _process_plan parameter (also post-flight env)
  post_flight_cmd,   \* _process_plan parameter (also the post-flight run)
  remediation_cmd,   \* _handle_continue_abort local
  plan,              \* _process_plan parameter
  action_queue,      \* _process_plan local
  action,            \* _process_plan local: the step being executed
  step_resume_state, \* _process_plan local resume_state built before the step
  exit_code,         \* exit status of the last finished process
  exit_at,           \* which exit of the code ended the last process
  log,               \* commands and checkouts issued by the running process
  pre_head,          \* history: head when the process started
  failed_branch,     \* history: the step whose failure wrote the Checkpoint on disk
  pre_resume,        \* history: disk_resume when the process started
  pre_branches,      \* history: disk_branches when the process started
  argv_env,          \* history: the KEY=VALUE pairs of the process's command line
  add_proc,          \* a concurrent handle_add between its load and its save, or NoAdd
  git_operation,     \* the git operation in progress in .git ("none" if none)
  file_damage,       \* what is wrong with the metadata file ("ok" if nothing)
  backup_file,       \* whether .git/stacked_diffs_graph.json.backup exists
  local_branches,    \* the local branches of the git repository
  executed           \* history, where kept: the branches the user command has
                     \* run on in the operation in progress, and those it ran
                     \* on again; NoHistory where it is not kept

diskVars == <<disk_branches, disk_resume>>
frameVars == <<args, alias_def, graph, resume_state, start_branch, user_command,
               alias_name, custom_env_vars, post_flight_cmd, remediation_cmd>>
loopVars == <<plan, action_queue, action, step_resume_state>>
histVars == <<pre_head, failed_branch, pre_resume, pre_branches, argv_env>>
worldVars == <<add_proc, git_operation, file_damage, backup_file, local_branches>>
vars == <<disk_branches, disk_resume, head, pc, args, alias_def, graph,
          resume_state, start_branch, user_command, alias_name,
          custom_env_vars, post_flight_cmd, remediation_cmd, plan,
          action_queue, action, step_resume_state, exit_code, exit_at, log,
          pre_head, failed_branch, pre_resume, pre_branches, argv_env,
          add_proc, git_operation, file_damage, backup_file, local_branches,
          executed>>

\* ------------------------------------------------------- persisted forms
\* dataclasses.asdict of a ResumeState, as json.dump writes it
ResumeState_asdict(rs) ==
  [operation |-> rs.operation,
   start_branch |-> rs.start_branch,
   user_command |-> rs.user_command,
   plan |-> [i \in 1..Len(rs.plan) |->
               [branch |-> rs.plan[i].branch, parent |-> rs.plan[i].parent]],
   alias_name |-> rs.alias_name,
   env_vars |-> rs.env_vars,
   post_flight_cmd |-> rs.post_flight_cmd]

\* ResumeState.from_dict
ResumeState_from_dict(d) ==
  [operation |-> d.operation,
   start_branch |-> d.start_branch,
   user_command |-> d.user_command,
   plan |-> [i \in 1..Len(d.plan) |-> PlanAction(d.plan[i].branch, d.plan[i].parent)],
   alias_name |-> d.alias_name,
   env_vars |-> d.env_vars,
   post_flight_cmd |-> d.post_flight_cmd]

\* mutation: Graph.from_dict never builds the ResumeState
load_graph_without_resume(branches_on_disk, resume_on_disk) ==
  [trunk |-> Trunk, branches |-> branches_on_disk, resume_state |-> NoResume]

\* MetadataManager.load_graph (Graph.from_dict) of the current file
load_graph(branches_on_disk, resume_on_disk) ==
  [trunk |-> Trunk,
   branches |-> branches_on_disk,
   resume_state |-> IF resume_on_disk # NoResume
                    THEN <<ResumeState_from_dict(resume_on_disk[1])>>
                    ELSE NoResume]

\* the "resume_state" that MetadataManager.save_graph writes for a Graph
saved_resume(g) ==
  IF g.resume_state = NoResume THEN NoResume
  ELSE <<ResumeState_asdict(g.resume_state[1])>>

\* MetadataManager.save_resume_state: load, set, save
save_resume_state(state, branches_on_disk, resume_on_disk) ==
  LET g == load_graph(branches_on_disk, resume_on_disk)
  IN saved_resume([g EXCEPT !.resume_state = <<state>>])

\* MetadataManager.clear_resume_state: load, clear if set, save
clear_resume_state(branches_on_disk, resume_on_disk) ==
  LET g == load_graph(branches_on_disk, resume_on_disk)
  IN IF g.resume_state # NoResume
     THEN saved_resume([g EXCEPT !.resume_state = NoResume])
     ELSE resume_on_disk

\* ------------------------------------------------------ invocation input
RunArgs(command_string, pre, post, continue_run, abort_run, cli_env, command_name) ==
  [command_string |-> command_string,
   pre_flight_cmd |-> pre,
   post_flight_cmd |-> post,
   continue_run |-> continue_run,
   abort_run |-> abort_run,
   cli_env_vars |-> cli_env,       \* EmptyEnv stands for None and for {}
   command_name |-> command_name]

NoArgs == RunArgs(NoneStr, NoneStr, NoneStr, NoneStr, NoneStr, EmptyEnv, NoneStr)

PlainCommands == {"make test"}
PlainHooks == {<<NoneStr, NoneStr>>, <<"make deps", "make clean">>}
CliEnvs == {EmptyEnv, [k \in {"REMOTE"} |-> "origin"]}
ResumeFlags == {TrueFlag, "git add -A"}
AliasNames == DOMAIN DEFAULT_ALIASES

\* main(): `sd run COMMAND [--pre-flight P --post-flight Q]`
PlainRunInputs ==
  {[args |-> RunArgs(c, h[1], h[2], NoneStr, NoneStr, EmptyEnv, "run"), alias_def |-> NoAlias,
    argv_env |-> EmptyEnv] :
     c \in PlainCommands, h \in PlainHooks}

\* main(): `sd run --continue [CMD]` and `sd run --abort [CMD]`
PlainResumeInputs ==
  {[args |-> RunArgs(NoneStr, NoneStr, NoneStr, f, NoneStr, EmptyEnv, "run"),
    alias_def |-> NoAlias, argv_env |-> EmptyEnv] : f \in ResumeFlags}
  \cup
  {[args |-> RunArgs(NoneStr, NoneStr, NoneStr, NoneStr, f, EmptyEnv, "run"),
    alias_def |-> NoAlias, argv_env |-> EmptyEnv] : f \in ResumeFlags}

\* main(): the cli_env_vars handed to handle_run; in a continue/abort flow
\* the KEY=VALUE pairs of the command line are not parsed and None is passed
main_cli_env_vars(pairs, is_continue_abort_flow) ==
  IF is_continue_abort_flow THEN EmptyEnv ELSE pairs

\* main(): the dynamic alias dispatch, `sd <alias> [KEY=VALUE ...]`
AliasRunChoices ==
  {c \in AliasNames \X CliEnvs : DOMAIN c[2] \subseteq DOMAIN DEFAULT_ALIASES[c[1]].env}

AliasRunInputs ==
  {[args |-> RunArgs(DEFAULT_ALIASES[c[1]].command.run,
                     DEFAULT_ALIASES[c[1]].command.pre_flight,
                     DEFAULT_ALIASES[c[1]].command.post_flight,
                     NoneStr, NoneStr, main_cli_env_vars(c[2], FALSE), c[1]),
    alias_def |-> <<DEFAULT_ALIASES[c[1]]>>,
    argv_env |-> c[2]] : c \in AliasRunChoices}

\* main(): `sd <alias> [KEY=VALUE ...] --continue` and `... --abort`
AliasResumeInputs ==
  {[args |-> RunArgs(NoneStr,
                     DEFAULT_ALIASES[c[1]].command.pre_flight,
                     DEFAULT_ALIASES[c[1]].command.post_flight,
                     TrueFlag, NoneStr, main_cli_env_vars(c[2], TRUE), c[1]),
    alias_def |-> <<DEFAULT_ALIASES[c[1]]>>,
    argv_env |-> c[2]] : c \in {"update"} \X CliEnvs}
  \cup
  {[args |-> RunArgs(NoneStr,
                     DEFAULT_ALIASES[c[1]].command.pre_flight,
                     DEFAULT_ALIASES[c[1]].command.post_flight,
                     NoneStr, TrueFlag, main_cli_env_vars(c[2], TRUE), c[1]),
    alias_def |-> <<DEFAULT_ALIASES[c[1]]>>,
    argv_env |-> c[2]] : c \in {"update"} \X CliEnvs}

\* main(): `sd restack`
UserAliasRunInputs ==
  {[args |-> RunArgs(USER_ALIASES[n].command.run,
                     USER_ALIASES[n].command.pre_flight,
                     USER_ALIASES[n].command.post_flight,
                     NoneStr, NoneStr, main_cli_env_vars(EmptyEnv, FALSE), n),
    alias_def |-> <<USER_ALIASES[n]>>,
    argv_env |-> EmptyEnv] : n \in DOMAIN USER_ALIASES}

RunInputs ==
  PlainRunInputs \cup PlainResumeInputs \cup AliasRunInputs \cup AliasResumeInputs
  \cup UserAliasRunInputs

IsContinue(a) == a.continue_run # NoneStr
IsAbort(a) == a.abort_run # NoneStr


\* --------------------------------------------------- handle_run's locals
\* variant: the alias defaults are applied after the CLI overrides
handle_run_env_vars_alias_last(a, ad) ==
  DictUpdate(a.cli_env_vars, IF ad # NoAlias THEN ad[1].env ELSE EmptyEnv)

\* handle_run: env_vars (alias defaults, then CLI overrides)
handle_run_env_vars(a, ad) ==
  DictUpdate(IF ad # NoAlias THEN ad[1].env ELSE EmptyEnv, a.cli_env_vars)

\* handle_run: user_command, pre_flight_cmd, post_flight_cmd
handle_run_user_command(a, ad) ==
  IF ad # NoAlias THEN ad[1].command.run ELSE a.command_string

handle_run_pre_flight_cmd(a, ad) ==
  IF ad # NoAlias THEN ad[1].command.pre_flight ELSE a.pre_flight_cmd

handle_run_post_flight_cmd(a, ad) ==
  IF ad # NoAlias THEN ad[1].command.post_flight ELSE a.post_flight_cmd

\* mutation: the guard is missing
new_run_blocked_never(rs) == FALSE

\* handle_run: the guard of a new run, `if resume_state: ... sys.exit(1)`
new_run_blocked(rs) == rs # NoResume

\* _handle_continue_abort: the choice of remediation_cmd
resolve_remediation_cmd(a, rs) ==
  LET original_alias_def ==
        IF rs.alias_name \in DOMAIN get_all_aliases
        THEN <<get_all_aliases[rs.alias_name]>> ELSE NoAlias
  IN IF IsContinue(a)
     THEN IF a.continue_run # TrueFlag THEN a.continue_run
          ELSE IF original_alias_def # NoAlias /\ Truthy(original_alias_def[1].continue_cmd)
               THEN original_alias_def[1].continue_cmd ELSE "true"
     ELSE IF a.abort_run # TrueFlag THEN a.abort_run
          ELSE IF original_alias_def # NoAlias /\ Truthy(original_alias_def[1].abort_cmd)
               THEN original_alias_def[1].abort_cmd ELSE "true"

\* mutation: start_branch is read after the pre-flight has moved to the trunk
new_run_frame_on_trunk(a, ad, current_branch) ==
  [start_branch |-> Trunk,
   user_command |-> handle_run_user_command(a, ad),
   alias_name |-> a.command_name,
   custom_env_vars |-> handle_run_env_vars(a, ad),
   post_flight_cmd |-> handle_run_post_flight_cmd(a, ad)]

\* the arguments _handle_new_run passes to _process_plan and post-flight
new_run_frame(a, ad, current_branch) ==
  [start_branch |-> current_branch,
   user_command |-> handle_run_user_command(a, ad),
   alias_name |-> a.command_name,
   custom_env_vars |-> handle_run_env_vars(a, ad),
   post_flight_cmd |-> handle_run_post_flight_cmd(a, ad)]

\* mutation: the resumed loop is given the command and environment of the
\* command line instead of the saved ones
resume_frame_from_args(a, ad, rs) ==
  [start_branch |-> rs.start_branch,
   user_command |-> handle_run_user_command(a, ad),
   alias_name |-> rs.alias_name,
   custom_env_vars |-> handle_run_env_vars(a, ad),
   post_flight_cmd |-> rs.post_flight_cmd]

\* the arguments _handle_continue_abort passes to _process_plan, post-flight
\* and cleanup: all of them come from the loaded ResumeState
resume_frame(a, ad, rs) ==
  [start_branch |-> rs.start_branch,
   user_command |-> rs.user_command,
   alias_name |-> rs.alias_name,
   custom_env_vars |-> rs.env_vars,
   post_flight_cmd |-> rs.post_flight_cmd]

NoFrame ==
  [start_branch |-> NoneStr, user_command |-> NoneStr, alias_name |-> NoneStr,
   custom_env_vars |-> EmptyEnv, post_flight_cmd |-> NoneStr]

NoAction == PlanAction(NoneStr, NoneStr)

\* mutation: the queue is looked at one step too far
make_resume_state_skip(sb, uc, queue, an, env, pf) ==
  [operation |-> "run",
   start_branch |-> sb,
   user_command |-> uc,
   plan |-> IF queue = <<>> THEN queue ELSE Tail(queue),
   alias_name |-> an,
   env_vars |-> env,
   post_flight_cmd |-> pf]

\* mutation: the ResumeState does not record the name of the alias
make_resume_state_unnamed(sb, uc, queue, an, env, pf) ==
  [operation |-> "run",
   start_branch |-> sb,
   user_command |-> uc,
   plan |-> queue,
   alias_name |-> "run",
   env_vars |-> env,
   post_flight_cmd |-> pf]

\* _process_plan: the ResumeState built before a step runs; action_queue is
\* the queue after popleft
make_resume_state(sb, uc, queue, an, env, pf) ==
  [operation |-> "run",
   start_branch |-> sb,
   user_command |-> uc,
   plan |-> queue,
   alias_name |-> an,
   env_vars |-> env,
   post_flight_cmd |-> pf]

\* variant: the three context variables are applied after the custom ones
step_env_context_last(act, trunk, custom) ==
  DictUpdate(custom, [SD_CURRENT_BRANCH |-> act.branch,
                      SD_PARENT_BRANCH |-> act.parent,
                      SD_TRUNK_BRANCH |-> trunk])

\* _process_plan: the environment of the user command on a step
step_env(act, trunk, custom) ==
  DictUpdate([SD_CURRENT_BRANCH |-> act.branch,
              SD_PARENT_BRANCH |-> act.parent,
              SD_TRUNK_BRANCH |-> trunk], custom)

\* _run_pre_flight / _run_post_flight: shell_env
flight_env(trunk, sb, env) ==
  DictUpdate([SD_TRUNK_BRANCH |-> trunk, SD_START_BRANCH |-> sb], env)

\* _handle_continue_abort: remediation_shell_env
remediation_env(current_branch, saved_env_vars) ==
  DictUpdate([SD_CURRENT_BRANCH |-> current_branch], saved_env_vars)

\* os.environ of the sd process: what the operator's shell exports
os_environ == [PATH |-> "/usr/bin", REMOTE |-> "from-shell", EDITOR |-> "vi"]

\* variant: the child process is given env_vars only
subprocess_env_stripped(env_vars) == env_vars

\* run_command / run_shell_command: env = os.environ.copy(); env.update(env_vars)
subprocess_env(env_vars) == DictUpdate(os_environ, env_vars)

\* one git checkout or shell command of the process, with its exit status;
\* env is the env_vars argument, environ what the child process sees
Event(ev, branch, cmd, env, ok) ==
  [ev |-> ev, branch |-> branch, cmd |-> cmd, env |-> env,
   environ |-> subprocess_env(env), ok |-> ok]

\* where control goes when the while loop of _process_plan is (re)entered
\* with this queue, and after the loop: post-flight if configured, then cleanup
after_step_pc(queue, pf) ==
  IF queue # <<>> THEN "checkout"
  ELSE IF Truthy(pf) THEN "post_flight" ELSE "cleanup"

\* mutation: the ResumeState is saved after every step, not only a failed one
persisted_after_step_always(success, state, branches_on_disk, resume_on_disk) ==
  save_resume_state(state, branches_on_disk, resume_on_disk)

\* mutation: a succeeding step drops the Checkpoint of the operation
persisted_after_step_cleared(success, state, branches_on_disk, resume_on_disk) ==
  IF ~success THEN save_resume_state(state, branches_on_disk, resume_on_disk)
  ELSE NoResume

\* _process_plan: what "resume_state" of the file holds after a step's
\* command returned: `if not success: mm.save_resume_state(resume_state)`
persisted_after_step(success, state, branches_on_disk, resume_on_disk) ==
  IF ~success THEN save_resume_state(state, branches_on_disk, resume_on_disk)
  ELSE resume_on_disk

\* mutation: an empty plan returns at once, post-flight or not
empty_plan_runs_post_flight_never(pf) == FALSE

\* _handle_new_run, `if not plan:` : `if post_flight_cmd:`
empty_plan_runs_post_flight(pf) == Truthy(pf)

\* mutation: the exit status of the pre-flight command is ignored
pre_flight_aborts_never(success) == FALSE

\* _run_pre_flight: `if not success: sys.exit(1)`
pre_flight_aborts(success) == ~success

\* _run_post_flight: `if not success: sys.exit(1)`
post_flight_aborts(success) == ~success

\* mutation: a failing remediation ends an abort as it ends a continue
remediation_aborts_on_abort_too(a, success) == ~success

\* _handle_continue_abort: `if args.continue_run: if not remediation_success:`
remediation_aborts(a, success) == IsContinue(a) /\ ~success

\* mutation: the state is re-saved without the step it was about to resume at
resaved_state_advanced(rs) ==
  [rs EXCEPT !.plan = IF rs.plan = <<>> THEN rs.plan ELSE Tail(rs.plan)]

\* _handle_continue_abort: the state re-saved when the remediation failed
resaved_state(rs) == rs

\* _handle_continue_abort: the plan handed to _process_plan on continue,
\* none on abort
resumed_plan(a, rs) == IF IsContinue(a) THEN rs.plan ELSE <<>>

SetFrame(f) ==
  /\ start_branch' = f.start_branch
  /\ user_command' = f.user_command
  /\ alias_name' = f.alias_name
  /\ custom_env_vars' = f.custom_env_vars
  /\ post_flight_cmd' = f.post_flight_cmd

Exit(code, at) ==
  /\ pc' = "idle"
  /\ exit_code' = code
  /\ exit_at' = at

Running(next_pc) ==
  /\ pc' = next_pc
  /\ UNCHANGED <<exit_code, exit_at>>

\* history kept by whatever happens between two processes: the operation
\* in progress is the one whose Checkpoint is on disk
NoHistory == <<>>

NothingExecuted == [once |-> {}, again |-> {}]

ExecutedCarried ==
  IF executed = NoHistory \/ disk_resume # NoResume THEN executed
  ELSE NothingExecuted

ResetLoop ==
  /\ plan' = <<>>
  /\ action_queue' = <<>>
  /\ action' = NoAction
  /\ step_resume_state' = NoResume

\* ----------------------------------------------------------- the actions
\* the state before any sd invocation, with the metadata file holding
\* branches_on_disk and the working tree on current_branch
InitWith(branches_on_disk, current_branch, history) ==
  /\ disk_branches = branches_on_disk
  /\ disk_resume = NoResume
  /\ head = current_branch
  /\ pc = "idle"
  /\ args = NoArgs
  /\ alias_def = NoAlias
  /\ graph = load_graph(branches_on_disk, NoResume)
  /\ resume_state = NoResume
  /\ start_branch = NoneStr
  /\ user_command = NoneStr
  /\ alias_name = NoneStr
  /\ custom_env_vars = EmptyEnv
  /\ post_flight_cmd = NoneStr
  /\ remediation_cmd = NoneStr
  /\ plan = <<>>
  /\ action_queue = <<>>
  /\ action = NoAction
  /\ step_resume_state = NoResume
  /\ exit_code = 0
  /\ exit_at = "none"
  /\ log = <<>>
  /\ pre_head = current_branch
  /\ failed_branch = NoneStr
  /\ pre_resume = NoResume
  /\ pre_branches = branches_on_disk
  /\ argv_env = EmptyEnv
  /\ add_proc = NoAdd
  /\ git_operation = "none"
  /\ file_damage = "ok"
  /\ backup_file = FALSE
  /\ local_branches = GraphNames(branches_on_disk) \cup {Trunk, current_branch}
  /\ executed = history

InitAt(branches_on_disk, current_branch) ==
  InitWith(branches_on_disk, current_branch, NoHistory)

\* a fresh repository: no metadata file yet, the trunk checked out
Init == InitAt(<<>>, Trunk)

\* handle_run up to the first shell command: load, compose, dispatch
StartRun(inp) ==
  /\ pc = "idle"
  /\ LET g == load_graph(disk_branches, disk_resume)
         rs == load_graph(disk_branches, disk_resume).resume_state
         a == inp.args
         ad == inp.alias_def
     IN /\ args' = a
        /\ alias_def' = ad
        /\ graph' = g
        /\ resume_state' = rs
        /\ log' = <<>>
        /\ pre_head' = head
        /\ failed_branch' = IF disk_resume = NoResume THEN NoneStr
                             ELSE IF exit_at = "step_failed" THEN action.branch
                             ELSE failed_branch
        /\ pre_resume' = disk_resume
        /\ pre_branches' = disk_branches
        /\ argv_env' = inp.argv_env
        /\ executed' = ExecutedCarried
        /\ ResetLoop
        /\ UNCHANGED <<diskVars, head>>
        /\ IF IsContinue(a) \/ IsAbort(a)
           THEN /\ IF DOMAIN a.cli_env_vars # {}
                   THEN /\ Exit(1, "env_with_resume")
                        /\ SetFrame(NoFrame)
                        /\ remediation_cmd' = NoneStr
                   ELSE IF rs = NoResume
                   THEN /\ Exit(1, "nothing_to_resume")
                        /\ SetFrame(NoFrame)
                        /\ remediation_cmd' = NoneStr
                   ELSE /\ Running("remediation")
                        /\ SetFrame(resume_frame(a, ad, rs[1]))
                        /\ remediation_cmd' = resolve_remediation_cmd(a, rs[1])
           ELSE /\ remediation_cmd' = NoneStr
                /\ IF new_run_blocked(rs)
                   THEN /\ Exit(1, "blocked")
                        /\ SetFrame(NoFrame)
                   ELSE /\ SetFrame(new_run_frame(a, ad, head))
                        /\ Running(IF Truthy(handle_run_pre_flight_cmd(a, ad))
                                   THEN "pre_flight" ELSE "plan")
  /\ UNCHANGED worldVars

\* _run_pre_flight
PreFlight(success) ==
  /\ pc = "pre_flight"
  /\ log' = Append(log, Event("pre_flight", head, handle_run_pre_flight_cmd(args, alias_def),
                              flight_env(graph.trunk, start_branch, custom_env_vars), success))
  /\ IF pre_flight_aborts(success)
     THEN Exit(1, "pre_flight_failed")
     ELSE Running("plan")
  /\ UNCHANGED <<diskVars, head, frameVars, loopVars, histVars>>
  /\ UNCHANGED worldVars
  /\ UNCHANGED executed

\* _handle_new_run from the stack-root resolution to the entry of the loop
BuildPlan ==
  /\ pc = "plan"
  /\ LET descendants_only ==
           IF alias_def # NoAlias THEN alias_def[1].command.descendants_only ELSE FALSE
         start_from_root ==
           IF alias_def # NoAlias THEN alias_def[1].command.start_from_root ELSE FALSE
         plan_start_branch ==
           IF start_from_root /\ start_branch \in BranchKeys(graph.branches)
           THEN find_stack_root(start_branch, graph) ELSE start_branch
         new_plan == build_traversal_plan(plan_start_branch, graph, descendants_only)
     IN /\ plan_start_branch # Diverges
        /\ IF new_plan = <<>>
           THEN /\ IF empty_plan_runs_post_flight(post_flight_cmd)
                   THEN Running("post_flight")
                   ELSE Exit(0, "nothing_to_process")
                /\ UNCHANGED <<diskVars, loopVars>>
           ELSE /\ disk_branches' = graph.branches
                /\ disk_resume' = saved_resume(graph)
                /\ plan' = new_plan
                /\ action_queue' = new_plan
                /\ UNCHANGED <<action, step_resume_state>>
                /\ Running(after_step_pc(new_plan, post_flight_cmd))
  /\ UNCHANGED <<head, frameVars, log, histVars>>
  /\ UNCHANGED worldVars
  /\ UNCHANGED executed

\* mutation: the next action is taken from the right end of the queue
popleft_from_right(queue) == queue[Len(queue)]

\* _process_plan: `action = action_queue.popleft()`, the action taken
popleft(queue) == Head(queue)

\* mutation: a git command that fails returns to its caller
run_command_returns(success) == FALSE

\* run_command: `except subprocess.CalledProcessError: ... sys.exit(1)`
run_command_exits(success) == ~success

\* _process_plan: popleft, build the ResumeState, git checkout
Checkout(success) ==
  /\ pc = "checkout"
  /\ action_queue # <<>>
  /\ success => popleft(action_queue).branch \in local_branches
  /\ action' = popleft(action_queue)
  /\ action_queue' = Tail(action_queue)
  /\ step_resume_state' = <<make_resume_state(start_branch, user_command, Tail(action_queue),
                                              alias_name, custom_env_vars, post_flight_cmd)>>
  /\ log' = Append(log, Event("checkout", popleft(action_queue).branch, NoneStr, EmptyEnv, success))
  /\ IF run_command_exits(success)
     THEN /\ head' = head
          /\ Exit(1, "checkout_failed")
     ELSE /\ head' = IF success THEN popleft(action_queue).branch ELSE head
          /\ Running("user_command")
  /\ UNCHANGED <<diskVars, frameVars, plan, histVars>>
  /\ UNCHANGED worldVars
  /\ UNCHANGED executed

\* _process_plan: the user command on the checked-out step
UserCommand(success) ==
  /\ pc = "user_command"
  /\ log' = Append(log, Event("user_command", action.branch, user_command,
                              step_env(action, graph.trunk, custom_env_vars), success))
  /\ disk_resume' = persisted_after_step(success, step_resume_state[1],
                                          disk_branches, disk_resume)
  /\ disk_branches' = disk_branches
  /\ IF success
     THEN Running(after_step_pc(action_queue, post_flight_cmd))
     ELSE Exit(1, "step_failed")
  /\ UNCHANGED <<head, frameVars, loopVars, histVars>>
  /\ UNCHANGED worldVars
  /\ executed' = IF executed = NoHistory THEN executed
                   ELSE [once |-> executed.once \cup {action.branch},
                         again |-> executed.again
                                     \cup ({action.branch} \cap executed.once)]

\* _run_post_flight
PostFlight(success) ==
  /\ pc = "post_flight"
  /\ log' = Append(log, Event("post_flight", head, post_flight_cmd,
                              flight_env(graph.trunk, start_branch, custom_env_vars), success))
  /\ IF post_flight_aborts(success)
     THEN Exit(1, "post_flight_failed")
     ELSE Running("cleanup")
  /\ UNCHANGED <<diskVars, head, frameVars, loopVars, histVars>>
  /\ UNCHANGED worldVars
  /\ UNCHANGED executed

\* run_command: a failing git command ends the process with sys.exit(1);
\* SystemExit is not a subprocess.SubprocessError, so _perform_cleanup's
\* except clause does not catch it
cleanup_checkout_exits(success) == ~success

\* _perform_cleanup
Cleanup(success) ==
  /\ pc = "cleanup"
  /\ IF head # start_branch
     THEN /\ success => start_branch \in local_branches
          /\ log' = Append(log, Event("cleanup_checkout", start_branch, NoneStr, EmptyEnv, success))
          /\ IF cleanup_checkout_exits(success)
             THEN /\ Exit(1, "cleanup_checkout_failed")
                  /\ UNCHANGED <<diskVars, head>>
             ELSE /\ head' = IF success THEN start_branch ELSE head
                  /\ disk_resume' = clear_resume_state(disk_branches, disk_resume)
                  /\ disk_branches' = disk_branches
                  /\ Exit(0, "done")
     ELSE /\ success
          /\ log' = log
          /\ head' = head
          /\ disk_resume' = clear_resume_state(disk_branches, disk_resume)
          /\ disk_branches' = disk_branches
          /\ Exit(0, "done")
  /\ UNCHANGED <<frameVars, loopVars, histVars>>
  /\ UNCHANGED worldVars
  /\ UNCHANGED executed

\* _handle_continue_abort: the remediation command and what follows it
Remediation(success) ==
  /\ pc = "remediation"
  /\ log' = Append(log, Event("remediation", head, remediation_cmd,
                              remediation_env(head, resume_state[1].env_vars), success))
  /\ IF remediation_aborts(args, success)
     THEN /\ disk_resume' = save_resume_state(resaved_state(resume_state[1]),
                                              disk_branches, disk_resume)
          /\ disk_branches' = disk_branches
          /\ Exit(1, "remediation_failed")
          /\ UNCHANGED loopVars
     ELSE /\ plan' = resumed_plan(args, resume_state[1])
          /\ action_queue' = resumed_plan(args, resume_state[1])
          /\ UNCHANGED <<action, step_resume_state, diskVars>>
          /\ Running(after_step_pc(resumed_plan(args, resume_state[1]), post_flight_cmd))
  /\ UNCHANGED <<head, frameVars, histVars>>
  /\ UNCHANGED worldVars
  /\ UNCHANGED executed

\* the operator kills the running process (SIGKILL): nothing more is written
Kill ==
  /\ pc # "idle"
  /\ Exit(137, "killed")      \* 128 + SIGKILL
  /\ UNCHANGED <<diskVars, head, frameVars, loopVars, log, histVars>>
  /\ UNCHANGED worldVars
  /\ UNCHANGED executed

ForgetProcess ==
  /\ args' = NoArgs
  /\ alias_def' = NoAlias
  /\ graph' = load_graph(<<>>, NoResume)
  /\ resume_state' = NoResume
  /\ SetFrame(NoFrame)
  /\ remediation_cmd' = NoneStr
  /\ ResetLoop
  /\ log' = <<>>
  /\ pc' = "idle"
  /\ exit_code' = 0

\* Graph.branches after handle_add stacks branch_name on parent_branch
add_branch(branches, trunk, parent_branch, branch_name) ==
  LET with_parent ==
        IF parent_branch # trunk /\ parent_branch \notin BranchKeys(branches)
        THEN Append(branches, [name |-> parent_branch, children |-> <<>>])
        ELSE branches
      with_child ==
        IF parent_branch # trunk
        THEN [i \in 1..Len(with_parent) |->
                IF with_parent[i].name = parent_branch
                THEN [with_parent[i] EXCEPT !.children = Append(@, branch_name)]
                ELSE with_parent[i]]
        ELSE with_parent
  IN IF branch_name \in BranchKeys(with_child)
     THEN [i \in 1..Len(with_child) |->
             IF with_child[i].name = branch_name
             THEN [name |-> branch_name, children |-> <<>>]
             ELSE with_child[i]]
     ELSE Append(with_child, [name |-> branch_name, children |-> <<>>])

\* handle_add: `sd add <branch_name>` on a name that is not yet a branch.
\* The operator stacks new branches between operations, not during a pause.
Add(branch_name) ==
  /\ pc = "idle"
  /\ branch_name \notin BranchKeys(disk_branches) \cup local_branches
  /\ disk_resume = NoResume
  /\ LET g == load_graph(disk_branches, disk_resume)
     IN /\ disk_branches' = add_branch(g.branches, g.trunk, head, branch_name)
        /\ disk_resume' = saved_resume(g)
  /\ head' = branch_name
  /\ ForgetProcess
  /\ exit_at' = "add"
  /\ pre_head' = head'
  /\ failed_branch' = NoneStr
  /\ pre_resume' = disk_resume'
  /\ pre_branches' = disk_branches'
  /\ argv_env' = EmptyEnv
  /\ executed' = ExecutedCarried
  /\ local_branches' = local_branches \cup {branch_name}
  /\ UNCHANGED <<add_proc, git_operation, file_damage, backup_file>>

\* the operator switches branch with git between two operations
UserCheckout(b) ==
  /\ pc = "idle"
  /\ b \in local_branches
  /\ b # head
  /\ disk_resume = NoResume
  /\ head' = b
  /\ ForgetProcess
  /\ exit_at' = "git"
  /\ UNCHANGED diskVars
  /\ pre_head' = head'
  /\ failed_branch' = NoneStr
  /\ pre_resume' = disk_resume'
  /\ pre_branches' = disk_branches'
  /\ argv_env' = EmptyEnv
  /\ executed' = ExecutedCarried
  /\ UNCHANGED worldVars

Next ==
  \/ \E inp \in RunInputs : StartRun(inp)
  \/ \E success \in BOOLEAN : PreFlight(success)
  \/ BuildPlan
  \/ \E success \in BOOLEAN : Checkout(success)
  \/ \E success \in BOOLEAN : UserCommand(success)
  \/ \E success \in BOOLEAN : PostFlight(success)
  \/ \E success \in BOOLEAN : Cleanup(success)
  \/ \E success \in BOOLEAN : Remediation(success)
  \/ Kill
  \/ \E b \in Names : Add(b)
  \/ \E b \in Names \cup {Trunk} : UserCheckout(b)

Spec == Init /\ [][Next]_vars

TypeOK ==
  /\ pc \in {"idle", "pre_flight", "plan", "checkout", "user_command",
             "post_flight", "cleanup", "remediation"}
  /\ head \in local_branches
  /\ Len(disk_resume) <= 1


\* ------------------------------------- specification: step environments
\* Runs of a user alias whose env defaults and CLI KEY=VALUE overrides
\* range over every choice of keys, the per-step context keys included,
\* on the stack main <- A <- B with A checked out.
ContextKeys == {"SD_CURRENT_BRANCH", "SD_PARENT_BRANCH", "SD_TRUNK_BRANCH"}

EnvKeys == ContextKeys \cup {"REMOTE"}

\* handle_alias_set: `--env KEY=VALUE` takes any key
AliasEnvs == UNION {[D -> {"from-alias"}] : D \in SUBSET EnvKeys}

\* main(): KEY=VALUE pairs after the alias name; any alphanumeric/_/- key
CliOverrides == UNION {[D -> {"from-cli"}] : D \in SUBSET EnvKeys}

EnvRunInputs ==
  {[args |-> RunArgs("echo $SD_CURRENT_BRANCH", NoneStr, NoneStr,
                     NoneStr, NoneStr, main_cli_env_vars(c[2], FALSE), "show"),
    alias_def |-> <<user_alias("echo $SD_CURRENT_BRANCH", NoneStr, FALSE, c[1])>>,
    argv_env |-> c[2]] :
     c \in AliasEnvs \X CliOverrides}

InitEnv ==
  InitAt(add_branch(add_branch(<<>>, Trunk, Trunk, "A"), Trunk, "A", "B"), "A")

NextEnv ==
  \/ \E inp \in EnvRunInputs : StartRun(inp)
  \/ BuildPlan
  \/ Checkout(TRUE)
  \/ UserCommand(TRUE)
  \/ Cleanup(TRUE)

SpecEnv == InitEnv /\ [][NextEnv]_vars


\* --------------------------------- specification: hand-edited metadata
\* One new run on a repository whose metadata file was edited by hand:
\* any keys in any order, any children lists (cycles, a branch listed
\* under several parents, children that are no keys), any branch checked
\* out.
Distinct(s) == \A i, j \in 1..Len(s) : i # j => s[i] # s[j]

ChildLists ==
  {s \in UNION {[1..n -> Names] : n \in 0..MaxChildren} : Distinct(s)}

KeyOrders ==
  {s \in UNION {[1..n -> Names] : n \in 0..MaxBranches} : Distinct(s)}

EditedBranches ==
  UNION {{[i \in 1..Len(ks) |-> [name |-> ks[i], children |-> cl[i]]] :
            cl \in [1..Len(ks) -> ChildLists]} : ks \in KeyOrders}

\* `sd run CMD`, `sd update`, `sd sync`
PlanRunInputs ==
  {inp \in PlainRunInputs \cup AliasRunInputs :
     /\ inp.args.cli_env_vars = EmptyEnv
     /\ inp.alias_def = NoAlias => ~Truthy(inp.args.pre_flight_cmd)}

InitPlan ==
  \E branches \in EditedBranches : \E b \in Names \cup {Trunk} : InitAt(branches, b)

NextPlan ==
  \/ \E inp \in PlanRunInputs : exit_at = "none" /\ StartRun(inp)
  \/ PreFlight(TRUE)
  \/ BuildPlan
  \/ Checkout(TRUE)
  \/ UserCommand(TRUE)

SpecPlan == InitPlan /\ [][NextPlan]_vars


\* ------------------------------------------------- properties: helpers
LogOf(kinds) == SelectSeq(log, LAMBDA e : e.ev \in kinds)

StepCheckouts == LogOf({"checkout"})
StepCommands == LogOf({"user_command"})

IsNewRun(a) == a # NoArgs /\ ~IsContinue(a) /\ ~IsAbort(a)

\* the process has ended on one of the code's own exits (it was not killed)
Ended == pc = "idle" /\ exit_at \notin {"none", "add", "prune", "git", "killed"}

\* the last command issued by the process was a failed one of this kind
LastFailed(kind) ==
  log # <<>> /\ log[Len(log)].ev = kind /\ ~log[Len(log)].ok

\* ------------------------------------------------------------------ C1
\* C1: when the user command has failed on step i of the plan, in a fresh
\* or a resumed run, the process has exited with code 1, one Checkpoint is
\* on disk, its remaining_plan is the plan after step i in the original
\* order, its start_branch is the branch that was current when the
\* operation started (the start_branch of the Checkpoint being resumed, in
\* a resumed run), and steps 1..i are the only ones checked out and run.
C1_FailureCheckpointIsSuffix ==
  LastFailed("user_command") =>
    LET i == Len(StepCommands)
    IN /\ pc = "idle"
       /\ exit_code = 1
       /\ Len(disk_resume) = 1
       /\ disk_resume[1].plan = SubSeq(plan, i + 1, Len(plan))
       /\ disk_resume[1].start_branch =
            (IF IsContinue(args) THEN pre_resume[1].start_branch ELSE pre_head)
       /\ Len(StepCheckouts) = i
       /\ \A k \in 1..i : /\ StepCheckouts[k].branch = plan[k].branch
                          /\ StepCommands[k].branch = plan[k].branch

\* a fresh run failed on a step that is not the last one, on a branch other
\* than the one the operation started on
C1_Witness ==
  /\ LastFailed("user_command")
  /\ IsNewRun(args)
  /\ Len(disk_resume) = 1
  /\ disk_resume[1].plan # <<>>
  /\ disk_resume[1].start_branch # head

\* ------------------------------------------------------------------ C2
\* C2: a new run (plain or alias) started while a Checkpoint exists has
\* exited with code 1, with the Checkpoint and the graph on disk as they
\* were, the working tree where it was, and no pre-flight, checkout, step
\* command or post-flight issued; and while a new run is executing, no
\* Checkpoint (no other operation in flight) is on disk.
C2_NewRunBlockedByCheckpoint ==
  /\ (IsNewRun(args) /\ pre_resume # NoResume) =>
        /\ pc = "idle"
        /\ exit_code = 1
        /\ disk_resume = pre_resume
        /\ disk_branches = pre_branches
        /\ head = pre_head
        /\ log = <<>>
  /\ (IsNewRun(args) /\ pc # "idle") => disk_resume = NoResume

C2_Witness ==
  /\ IsNewRun(args)
  /\ pre_resume # NoResume
  /\ exit_at = "blocked"


\* ------------------------------------------------------------------ C3
\* a continue whose remediation and every remaining step succeeded
ContinueRanToCompletion ==
  /\ IsContinue(args)
  /\ pre_resume # NoResume
  /\ Ended
  /\ LogOf({"remediation"}) # <<>>
  /\ \A k \in 1..Len(log) : log[k].ev \in {"remediation", "checkout", "user_command"} => log[k].ok
  /\ Len(StepCommands) = Len(pre_resume[1].plan)

\* an abort of a paused operation that has ended
AbortEnded ==
  /\ IsAbort(args)
  /\ pre_resume # NoResume
  /\ Ended

\* C3: after a continue that ran the remaining plan to completion, and after
\* any abort, no Checkpoint is on disk and the working tree is on the
\* Checkpoint's start_branch.
C3_ResumedOperationEndsClean ==
  (ContinueRanToCompletion \/ AbortEnded) =>
    /\ disk_resume = NoResume
    /\ head = pre_resume[1].start_branch

\* ------------------------------------------------------------------ C4
\* C4: when the remediation command of a continue has failed, the process
\* has exited with code 1, the Checkpoint on disk equals the one that was
\* there when the process started, and the remediation is the only command
\* issued: no checkout, step command or post-flight.
C4_RemediationFailureKeepsCheckpoint ==
  (IsContinue(args) /\ \E k \in 1..Len(log) : log[k].ev = "remediation" /\ ~log[k].ok) =>
    /\ pc = "idle"
    /\ exit_code = 1
    /\ disk_resume = pre_resume
    /\ disk_branches = pre_branches
    /\ head = pre_head
    /\ Len(log) = 1

\* the failed continue was of a Checkpoint with steps left and a post-flight
C4_Witness ==
  /\ IsContinue(args)
  /\ LastFailed("remediation")
  /\ Len(pre_resume) = 1
  /\ pre_resume[1].plan # <<>>
  /\ Truthy(pre_resume[1].post_flight_cmd)

\* ------------------------------------------------------------------ C5
\* C5: in a continue, steps are executed only after a successful
\* remediation; the k-th step checked out and run is the k-th step of the
\* Checkpoint's remaining_plan, run with the Checkpoint's user_command under
\* the Checkpoint's env_vars; the step that failed is not checked out or run
\* again; and in every process a failed command is the last command issued
\* (nothing is retried), except the remediation of an abort.
C5_ContinueResumesAtNextStep ==
  /\ (IsContinue(args) /\ pre_resume # NoResume) =>
       LET rs == pre_resume[1]
       IN /\ Len(StepCommands) <= Len(StepCheckouts)
          /\ Len(StepCheckouts) <= Len(rs.plan)
          /\ StepCheckouts # <<>> => (log[1].ev = "remediation" /\ log[1].ok)
          /\ \A k \in 1..Len(StepCheckouts) :
               /\ StepCheckouts[k].branch = rs.plan[k].branch
               /\ StepCheckouts[k].branch # failed_branch
          /\ \A k \in 1..Len(StepCommands) :
               /\ StepCommands[k].branch = rs.plan[k].branch
               /\ StepCommands[k].cmd = rs.user_command
               /\ \A key \in DOMAIN rs.env_vars :
                    StepCommands[k].env[key] = rs.env_vars[key]
  /\ \A k \in 1..Len(log) :
       ~log[k].ok => \/ k = Len(log)
                     \/ (IsAbort(args) /\ log[k].ev = "remediation")
  /\ Len(LogOf({"remediation"})) <= 1

\* a step was run by a continue issued under another name than the paused
\* operation's, whose Checkpoint carries an environment
C5_Witness ==
  /\ IsContinue(args)
  /\ Len(pre_resume) = 1
  /\ StepCommands # <<>>
  /\ args.command_name # pre_resume[1].alias_name
  /\ pre_resume[1].env_vars # EmptyEnv
  /\ failed_branch # NoneStr

\* ------------------------------------------------------------------ C6
\* C6: an abort runs the remediation once, checks out no plan step and runs
\* the user command on no branch whether the remediation succeeded or not,
\* and ends with no Checkpoint on disk.
C6_AbortDiscardsPlanAndClears ==
  (IsAbort(args) /\ pre_resume # NoResume) =>
    /\ Len(LogOf({"remediation"})) <= 1
    /\ log # <<>> => log[1].ev = "remediation"
    /\ StepCheckouts = <<>>
    /\ StepCommands = <<>>
    /\ plan = <<>>
    /\ Ended => disk_resume = NoResume

\* ------------------------------------------------------------------ C7
\* C7: when the post-flight command has failed (after a fresh run's loop, a
\* continue's loop or on abort) and the process has ended, cleanup has been
\* performed: the working tree is on start_branch and no Checkpoint is on
\* disk.
C7_CleanupDespitePostFlightFailure ==
  (Ended /\ \E k \in 1..Len(log) : log[k].ev = "post_flight" /\ ~log[k].ok) =>
    /\ head = start_branch
    /\ disk_resume = NoResume

\* ------------------------------------------------------------------ C8
\* C8: after a process that ended because its post-flight command failed,
\* no Checkpoint is on disk.
C8_PostFlightFailureNotResumable ==
  (pc = "idle" /\ exit_at = "post_flight_failed") => disk_resume = NoResume

\* ------------------------------------------------------------------ C9
\* C9: when the pre-flight command of a new run has failed, the process has
\* exited with code 1 and the pre-flight is the only command it issued: no
\* plan was built, no branch checked out, no user command or post-flight
\* run, and no Checkpoint was created.
C9_PreFlightFailureAbortsEarly ==
  (\E k \in 1..Len(log) : log[k].ev = "pre_flight" /\ ~log[k].ok) =>
    /\ pc = "idle"
    /\ exit_code = 1
    /\ Len(log) = 1
    /\ plan = <<>>
    /\ head = pre_head
    /\ disk_resume = NoResume
    /\ disk_branches = pre_branches

\* the pre-flight failed on a tracked branch, where a plan would have steps
C9_Witness ==
  /\ LastFailed("pre_flight")
  /\ IsNewRun(args)
  /\ head \in BranchKeys(disk_branches)

\* ----------------------------------------------------------------- C10
\* the process was killed while the user command of a step was executing
KilledInStep ==
  /\ pc = "idle"
  /\ exit_at = "killed"
  /\ log # <<>>
  /\ log[Len(log)].ev = "checkout"
  /\ log[Len(log)].ok

\* C10 as stated: after a kill during a step, a Checkpoint is on disk whose
\* remaining_plan starts with the interrupted step, followed by all steps
\* after it.
C10_KillLeavesStepBoundaryCheckpoint ==
  KilledInStep =>
    /\ Len(disk_resume) = 1
    /\ disk_resume[1].plan = SubSeq(plan, Len(StepCheckouts), Len(plan))

\* C10 amended: a kill during a step leaves on disk exactly what was there
\* when the process started: no Checkpoint after a fresh run, and after a
\* continue the Checkpoint it loaded, whose remaining_plan is the whole plan
\* of that continue (the steps it had completed included).
C10_KillWritesNothing ==
  KilledInStep =>
    /\ disk_resume = pre_resume
    /\ IsNewRun(args) => disk_resume = NoResume
    /\ IsContinue(args) => (Len(disk_resume) = 1 /\ disk_resume[1].plan = plan)

\* a fresh run was killed in its second step, after the first had succeeded
C10_Witness ==
  /\ KilledInStep
  /\ IsNewRun(args)
  /\ StepCommands # <<>>

\* ----------------------------------------------------------------- C11
\* the value of a context key that the engine computes for a step
ContextValue(key, step) ==
  CASE key = "SD_CURRENT_BRANCH" -> step.branch
    [] key = "SD_PARENT_BRANCH" -> step.parent
    [] key = "SD_TRUNK_BRANCH" -> graph.trunk

\* C11: in a new run, the environment of the user command on the k-th step
\* of the plan holds, for each of SD_CURRENT_BRANCH, SD_PARENT_BRANCH and
\* SD_TRUNK_BRANCH, the custom value when the run's custom environment has
\* a key of that name, and otherwise the step's branch, the step's parent
\* and the trunk.
C11_CustomKeyWinsOverContext ==
  IsNewRun(args) =>
    \A k \in 1..Len(StepCommands) : \A key \in ContextKeys :
      StepCommands[k].env[key] =
        IF key \in DOMAIN custom_env_vars THEN custom_env_vars[key]
        ELSE ContextValue(key, plan[k])

\* a step has run whose custom environment names SD_CURRENT_BRANCH (and
\* the command saw the custom value, not the branch) while its
\* SD_PARENT_BRANCH is the step's parent
C11_Witness ==
  /\ IsNewRun(args)
  /\ \E k \in 1..Len(StepCommands) :
       /\ "SD_CURRENT_BRANCH" \in DOMAIN custom_env_vars
       /\ "SD_PARENT_BRANCH" \notin DOMAIN custom_env_vars
       /\ StepCommands[k].env["SD_CURRENT_BRANCH"] # plan[k].branch
       /\ StepCommands[k].env["SD_PARENT_BRANCH"] = plan[k].parent

\* ----------------------------------------------------------------- C12
AliasEnvOf(ad) == IF ad # NoAlias THEN ad[1].env ELSE EmptyEnv

\* C12 as stated: whatever the alias defaults and the CLI overrides are,
\* the user command on a step sees SD_CURRENT_BRANCH, SD_PARENT_BRANCH and
\* SD_TRUNK_BRANCH as the step's branch, the step's parent and the trunk.
C12_ContextNeverShadowed ==
  IsNewRun(args) =>
    \A k \in 1..Len(StepCommands) : \A key \in ContextKeys :
      StepCommands[k].env[key] = ContextValue(key, plan[k])

\* C12 amended: the layers of a step's environment are, from weakest to
\* strongest, the three context variables, the alias defaults, the CLI
\* overrides: a context key named by a CLI override has the CLI value, one
\* named only by an alias default has the alias value, and only a context
\* key named by neither has the step's branch, parent or the trunk.
C12_ContextShadowedByAliasAndCli ==
  IsNewRun(args) =>
    \A k \in 1..Len(StepCommands) : \A key \in ContextKeys :
      StepCommands[k].env[key] =
        IF key \in DOMAIN args.cli_env_vars THEN args.cli_env_vars[key]
        ELSE IF key \in DOMAIN AliasEnvOf(alias_def) THEN AliasEnvOf(alias_def)[key]
        ELSE ContextValue(key, plan[k])

\* a step has run with SD_PARENT_BRANCH named by both an alias default and
\* a CLI override, and SD_TRUNK_BRANCH by the alias default only
C12_Witness ==
  /\ IsNewRun(args)
  /\ StepCommands # <<>>
  /\ "SD_PARENT_BRANCH" \in DOMAIN args.cli_env_vars \cap DOMAIN AliasEnvOf(alias_def)
  /\ "SD_TRUNK_BRANCH" \in DOMAIN AliasEnvOf(alias_def) \ DOMAIN args.cli_env_vars
  /\ StepCommands[1].env["SD_PARENT_BRANCH"] = args.cli_env_vars["SD_PARENT_BRANCH"]
  /\ StepCommands[1].env["SD_TRUNK_BRANCH"] = AliasEnvOf(alias_def)["SD_TRUNK_BRANCH"]

\* ------------------------------------------------- planner claims: helpers
\* _handle_new_run: descendants_only and plan_start_branch of the run
DescendantsOnly ==
  alias_def # NoAlias /\ alias_def[1].command.descendants_only

PlanStartBranch ==
  IF alias_def # NoAlias /\ alias_def[1].command.start_from_root
     /\ start_branch \in BranchKeys(graph.branches)
  THEN find_stack_root(start_branch, graph) ELSE start_branch

\* the new run has built its plan
PlanBuilt ==
  /\ IsNewRun(args)
  /\ \/ pc \in {"checkout", "user_command", "post_flight", "cleanup"}
     \/ exit_at = "nothing_to_process"

PlanBranches == {plan[i].branch : i \in 1..Len(plan)}

\* the branches reachable from those of S by following children_for_traversal
RECURSIVE ReachableFrom(_, _)
ReachableFrom(S, g) ==
  LET more == {c \in Names : \E b \in S : InSeq(c, get_children_for_traversal(b, g))}
  IN IF more \subseteq S THEN S ELSE ReachableFrom(S \cup more, g)

\* ----------------------------------------------------------------- C13
\* C13 as stated: for every graph, cyclic and multi-parent ones included,
\* the plan of a new run names no branch twice and has as many steps as
\* there are distinct branches reachable from the start branch through
\* children_for_traversal, the start branch itself not counted in
\* descendants_only mode.
C13_PlanCoversReachableOnce ==
  PlanBuilt =>
    /\ Distinct([i \in 1..Len(plan) |-> plan[i].branch])
    /\ Len(plan) =
         Cardinality(ReachableFrom({PlanStartBranch}, graph) \
                     (IF DescendantsOnly THEN {PlanStartBranch} ELSE {}))

\* ----------------------------------------------------------------- C14
\* C14 as stated: for every graph, in descendants_only mode the start
\* branch is no step of the plan, every child of the start branch is a
\* step paired with the start branch as parent, and the user command is
\* never run on the start branch.
C14_StartBranchNeverAStep ==
  PlanBuilt /\ DescendantsOnly =>
    /\ PlanStartBranch \notin PlanBranches
    /\ \A i \in 1..Len(plan) :
         InSeq(plan[i].branch, get_children_for_traversal(PlanStartBranch, graph))
           => plan[i].parent = PlanStartBranch
    /\ \A k \in 1..Len(StepCommands) : StepCommands[k].branch # PlanStartBranch

\* ----------------------------------------------------------------- C15
\* C15 as stated: for every graph and every branch, cycles included, the
\* stack-root resolution of a new run returns a branch (the upward walk of
\* find_stack_root ends).
C15_FindStackRootTerminates ==
  IsNewRun(args) /\ pc = "plan" => PlanStartBranch # Diverges

\* ----------------------------------------------------------------- C16
\* the children relation closed downward from the branches of S
RECURSIVE DescendantsOf(_, _)
DescendantsOf(S, branches) ==
  LET kids == {c \in Names : \E b \in S \cap BranchKeys(branches) :
                               InSeq(c, ChildrenOf(b, branches))}
  IN IF kids \subseteq S THEN S ELSE DescendantsOf(S \cup kids, branches)

Descendants(b, branches) ==
  IF b \in BranchKeys(branches)
  THEN DescendantsOf({c \in Names : InSeq(c, ChildrenOf(b, branches))}, branches)
  ELSE {}

\* a forest: every branch is listed by at most one parent, once, and no
\* branch is its own descendant
WellFormed(branches) ==
  /\ \A i \in 1..Len(branches) : Distinct(branches[i].children)
  /\ \A b \in Names :
       Cardinality({i \in 1..Len(branches) : InSeq(b, branches[i].children)}) <= 1
  /\ \A b \in Names : b \notin Descendants(b, branches)

\* C16: on a well-formed forest, a new run that is not descendants_only
\* and starts from a branch other than the trunk has a plan whose first
\* step is the start branch paired with find_parent(start) (the trunk if
\* it has none) and whose steps are exactly the start branch and its
\* descendants, each once.
C16_PlanIsStartAndDescendants ==
  /\ PlanBuilt
  /\ ~DescendantsOnly
  /\ WellFormed(graph.branches)
  /\ PlanStartBranch # graph.trunk
  => /\ plan # <<>>
     /\ plan[1] = PlanAction(PlanStartBranch,
                             IF find_parent(PlanStartBranch, graph.branches) # NoneStr
                             THEN find_parent(PlanStartBranch, graph.branches)
                             ELSE graph.trunk)
     /\ PlanBranches = {PlanStartBranch} \cup Descendants(PlanStartBranch, graph.branches)
     /\ Len(plan) = Cardinality(PlanBranches)

\* a plan was built from a stacked start branch (its parent is a branch)
C16_Witness ==
  /\ PlanBuilt
  /\ ~DescendantsOnly
  /\ WellFormed(graph.branches)
  /\ PlanStartBranch # graph.trunk
  /\ find_parent(PlanStartBranch, graph.branches) # NoneStr
  /\ plan[1].parent = find_parent(PlanStartBranch, graph.branches)

\* ----------------------------------------------------------------- C17
\* C17 as stated: a continue or abort invocation whose command line
\* supplies KEY=VALUE environment variables is rejected, with or without a
\* Checkpoint: the process has exited with code 1 having run no
\* remediation and no step, and the Checkpoint and the graph on disk are
\* what they were.
C17_ResumeWithEnvRejected ==
  (IsContinue(args) \/ IsAbort(args)) /\ argv_env # EmptyEnv =>
    /\ pc = "idle"
    /\ exit_code = 1
    /\ log = <<>>
    /\ disk_resume = pre_resume
    /\ disk_branches = pre_branches

\* ----------------------------------------------------------------- C18
\* the remediation command the stated order selects for the running
\* continue or abort, from its flag and the Checkpoint it found on disk
ExpectedRemediation ==
  LET flag == IF IsContinue(args) THEN args.continue_run ELSE args.abort_run
      name == pre_resume[1].alias_name
      configured ==
        IF name \notin DOMAIN DEFAULT_ALIASES \cup DOMAIN USER_ALIASES THEN NoneStr
        ELSE IF name \in DOMAIN USER_ALIASES
        THEN (IF IsContinue(args) THEN USER_ALIASES[name].continue_cmd
              ELSE USER_ALIASES[name].abort_cmd)
        ELSE IF IsContinue(args) THEN DEFAULT_ALIASES[name].continue_cmd
        ELSE DEFAULT_ALIASES[name].abort_cmd
  IN IF flag # TrueFlag THEN flag
     ELSE IF Truthy(configured) THEN configured
     ELSE "true"

\* the remediation command that was run is the one the order selects
RemediationOrderKept ==
  \A k \in 1..Len(log) :
    log[k].ev = "remediation" => log[k].cmd = ExpectedRemediation

\* a continue with the no-op default has succeeded in its remediation on a
\* Checkpoint whose remaining plan is empty, and the process has ended
NoOpContinueOfEmptyPlanEnded ==
  /\ IsContinue(args)
  /\ Ended
  /\ pre_resume # NoResume
  /\ pre_resume[1].plan = <<>>
  /\ \E k \in 1..Len(log) :
       log[k].ev = "remediation" /\ log[k].cmd = "true" /\ log[k].ok

\* C18 as stated: the remediation command is the explicit one given with
\* --continue/--abort, else the continue_cmd/abort_cmd of the alias named
\* in the Checkpoint, else the no-op "true"; and a continue with the no-op
\* default on an empty remaining plan runs no step and ends with the
\* Checkpoint cleared.
C18_RemediationOrderAndNoOpContinue ==
  /\ RemediationOrderKept
  /\ NoOpContinueOfEmptyPlanEnded =>
       /\ StepCheckouts = <<>>
       /\ StepCommands = <<>>
       /\ disk_resume = NoResume

\* ----------------------------------------------------------------- C19
\* every command and checkout the process issued has succeeded, the
\* remediation of an abort left aside
NothingFailed ==
  \A k \in 1..Len(log) :
    log[k].ok \/ (IsAbort(args) /\ log[k].ev = "remediation")

\* the invocation did all it had to do: it was not refused, nothing
\* failed, every step of its plan ran unless it is an abort, the
\* post-flight ran if one is configured, and it ended cleaned up
FullySucceeded ==
  /\ ~(IsNewRun(args) /\ pre_resume # NoResume)
  /\ ~(~IsNewRun(args) /\ pre_resume = NoResume)
  /\ NothingFailed
  /\ IsAbort(args) \/ Len(StepCommands) = Len(plan)
  /\ Truthy(post_flight_cmd) => LogOf({"post_flight"}) # <<>>
  /\ disk_resume = NoResume
  /\ head = start_branch

\* C19: a process that has ended by itself has exit code 0 or 1; it is 0
\* exactly when the invocation fully succeeded; it is 1 after a failed
\* step, pre-flight or post-flight, after a failed remediation of a
\* continue, and for a new run refused because a Checkpoint exists; and an
\* abort in which nothing but the remediation failed ends with 0.
C19_ExitCodeTellsSuccess ==
  Ended =>
    /\ exit_code \in {0, 1}
    /\ exit_code = 0 <=> FullySucceeded
    /\ \/ LastFailed("user_command")
       \/ LastFailed("pre_flight")
       \/ LastFailed("post_flight")
       \/ IsContinue(args) /\ LastFailed("remediation")
       \/ IsNewRun(args) /\ pre_resume # NoResume
       => exit_code = 1
    /\ IsAbort(args) /\ pre_resume # NoResume /\ NothingFailed => exit_code = 0

\* an abort has ended with 0 although its remediation command failed
C19_Witness ==
  /\ Ended
  /\ IsAbort(args)
  /\ exit_code = 0
  /\ \E k \in 1..Len(log) : log[k].ev = "remediation" /\ ~log[k].ok

\* ----------------------------------------------------------------- C20
\* a new run, not refused and past its pre-flight, has found its plan empty
EmptyPlanRun ==
  /\ IsNewRun(args)
  /\ pre_resume = NoResume
  /\ plan = <<>>
  /\ \/ pc \in {"post_flight", "cleanup"}
     \/ Ended /\ \A k \in 1..Len(log) : log[k].ev = "pre_flight" => log[k].ok

StartFromRoot == alias_def # NoAlias /\ alias_def[1].command.start_from_root

\* C21: in a new run with start_from_root, begun on a branch other than
\* the trunk, the plan starts at find_stack_root of the branch that was
\* current at invocation and visits that root and all its descendants,
\* the current branch among them; the start_branch of the run and of any
\* Checkpoint it writes is the branch that was current at invocation; and
\* a run that ends successfully leaves the working tree on that branch.
C21_StartFromRootKeepsStartBranch ==
  IsNewRun(args) /\ StartFromRoot /\ pre_resume = NoResume =>
    /\ start_branch = pre_head
    /\ plan # <<>> /\ pre_head # graph.trunk =>
         /\ plan[1].branch = find_stack_root(pre_head, graph)
         /\ PlanBranches = {plan[1].branch} \cup Descendants(plan[1].branch, graph.branches)
         /\ pre_head \in PlanBranches
    /\ disk_resume # NoResume => disk_resume[1].start_branch = pre_head
    /\ Ended /\ exit_code = 0 => head = pre_head

\* a start_from_root run begun on a stacked branch has visited the stack
\* from its root and has ended successfully, back on the stacked branch
C21_Witness ==
  /\ IsNewRun(args) /\ StartFromRoot /\ pre_resume = NoResume
  /\ Ended /\ exit_code = 0
  /\ plan # <<>>
  /\ plan[1].branch # pre_head
  /\ Len(StepCommands) = Len(plan)
  /\ StepCommands[1].branch = find_stack_root(pre_head, graph)
  /\ head = pre_head

\* ----------------------------------------------------------------- C25
StepEvents == LogOf({"checkout", "user_command"})

\* C25: the checkouts and user commands of a process alternate, starting
\* with a checkout; the k-th checkout and the k-th command are on the
\* branch of the k-th step of the plan; every one of them but the last has
\* succeeded (nothing follows a failure); a step is active only between
\* its checkout and the return of its command; and after a failed checkout
\* or command the process has stopped.
C25_StepsRunInPlanOrder ==
  /\ Len(StepEvents) <= 2 * Len(plan)
  /\ \A i \in 1..Len(StepEvents) :
       /\ StepEvents[i].ev = (IF i % 2 = 1 THEN "checkout" ELSE "user_command")
       /\ StepEvents[i].branch = plan[(i + 1) \div 2].branch
       /\ i < Len(StepEvents) => StepEvents[i].ok
  /\ pc = "user_command" =>
       /\ Len(StepEvents) % 2 = 1
       /\ StepEvents[Len(StepEvents)].ok
       /\ action = plan[(Len(StepEvents) + 1) \div 2]
       /\ head = action.branch
  /\ pc = "checkout" => Len(StepEvents) % 2 = 0
  /\ LastFailed("user_command") \/ LastFailed("checkout") => pc = "idle" /\ exit_code = 1

\* a process has run two steps of its plan and the second command failed
C25_Witness ==
  /\ Len(StepEvents) = 4
  /\ StepEvents[3].branch # StepEvents[1].branch
  /\ LastFailed("user_command")

\* ----------------------------------------------------------------- C26
\* a Checkpoint appears on disk, or changes, in this step
CheckpointWritten == disk_resume' # disk_resume /\ disk_resume' # NoResume

CheckpointRemoved == disk_resume # NoResume /\ disk_resume' = NoResume

\* C26: the Checkpoint on disk changes only in two ways: it is written in
\* the step in which a user command fails, and it is removed by the
\* cleanup of a process that is past its plan (a completed run or continue,
\* or an abort); a failed remediation leaves it as it was; and while a
\* fresh run has had no failing command no Checkpoint is on disk.
C26_CheckpointWrittenOnlyOnFailure ==
  /\ [](IsNewRun(args) /\ pre_resume = NoResume /\ ~LastFailed("user_command")
        => disk_resume = NoResume)
  /\ [][/\ CheckpointWritten =>
             /\ pc = "user_command"
             /\ pc' = "idle"
             /\ ~log'[Len(log')].ok
             /\ log'[Len(log')].ev = "user_command"
        /\ CheckpointRemoved => pc = "cleanup" /\ action_queue = <<>>
        /\ pc = "remediation" => disk_resume' = disk_resume]_vars

\* a continue has failed on a step and has replaced the Checkpoint it
\* resumed from by a shorter one
C26_Witness ==
  /\ IsContinue(args)
  /\ LastFailed("user_command")
  /\ disk_resume # NoResume
  /\ disk_resume # pre_resume

\* ----------------------------------------------------------------- C27
\* the fields of a Checkpoint other than its remaining plan
OperationFields(rs) ==
  <<rs.operation, rs.start_branch, rs.user_command, rs.alias_name,
    rs.env_vars, rs.post_flight_cmd>>

\* C27: a Checkpoint written by a fresh run carries the branch current at
\* invocation, the run's user command, command name, composed environment
\* and post-flight command; a Checkpoint on disk during or after a continue
\* or abort carries the same fields as the Checkpoint that was resumed;
\* and the steps of a continue run the resumed Checkpoint's user command in
\* the step environment built from the resumed Checkpoint's env_vars.
C27_CheckpointFieldsFixed ==
  /\ IsNewRun(args) /\ pre_resume = NoResume /\ disk_resume # NoResume =>
       OperationFields(disk_resume[1]) =
         <<"run", pre_head, handle_run_user_command(args, alias_def),
           args.command_name,
           DictUpdate(AliasEnvOf(alias_def), args.cli_env_vars),
           handle_run_post_flight_cmd(args, alias_def)>>
  /\ ~IsNewRun(args) /\ pre_resume # NoResume /\ disk_resume # NoResume =>
       OperationFields(disk_resume[1]) = OperationFields(pre_resume[1])
  /\ IsContinue(args) /\ pre_resume # NoResume =>
       \A k \in 1..Len(StepCommands) :
         /\ StepCommands[k].cmd = pre_resume[1].user_command
         /\ StepCommands[k].env =
              DictUpdate([SD_CURRENT_BRANCH |-> plan[k].branch,
                          SD_PARENT_BRANCH |-> plan[k].parent,
                          SD_TRUNK_BRANCH |-> graph.trunk],
                         pre_resume[1].env_vars)

\* an alias run with an environment failed, its continue (given through
\* another command) failed again on a later step: the second Checkpoint
\* still names the alias and its environment
C27_Witness ==
  /\ IsContinue(args)
  /\ pre_resume # NoResume
  /\ LastFailed("user_command")
  /\ disk_resume # NoResume
  /\ disk_resume # pre_resume
  /\ disk_resume[1].alias_name # args.command_name
  /\ disk_resume[1].env_vars # EmptyEnv

\* ----------------------------------------------------------------- C28
\* the ordered children of a branch as the metadata gives them: the
\* children list of a key, the parentless keys in key order for the trunk
SiblingsOf(p, g) ==
  IF p = g.trunk
  THEN SelectSeq(KeySeq(g.branches), LAMBDA b : find_parent(b, g.branches) = NoneStr)
  ELSE IF p \in BranchKeys(g.branches) THEN ChildrenOf(p, g.branches)
  ELSE <<>>

IndexIn(x, seq) == MinOf({i \in 1..Len(seq) : seq[i] = x})

\* the branches at most n edges below those of S
RECURSIVE Within(_, _, _)
Within(S, n, g) ==
  IF n = 0 THEN S
  ELSE Within(S \cup {c \in Names : \E b \in S : InSeq(c, SiblingsOf(b, g))}, n - 1, g)

\* the depth of a branch of the plan below the start: 0 for the start of a
\* full traversal, 1 for the children of the start, and so on
DepthBelowStart(b) ==
  IF DescendantsOnly
  THEN 1 + MinOf({n \in 0..Cardinality(Names) :
                    b \in Within({c \in Names : InSeq(c, SiblingsOf(PlanStartBranch, graph))},
                                 n, graph)})
  ELSE MinOf({n \in 0..Cardinality(Names) : b \in Within({PlanStartBranch}, n, graph)})

C29_PlanIsBounded ==
  /\ IsNewRun(args) /\ pc = "plan" /\ PlanStartBranch # Diverges =>
       Len(build_traversal_plan(PlanStartBranch, graph, DescendantsOnly))
         <= Cardinality(GraphNames(graph.branches) \cup {PlanStartBranch})
  /\ PlanBuilt =>
       Len(plan) <= Cardinality(GraphNames(graph.branches) \cup {PlanStartBranch})

\* a plan was built on a graph with a cycle, and it names every branch
C29_Witness ==
  /\ PlanBuilt
  /\ \E b \in Names : b \in Descendants(b, graph.branches)
  /\ Len(plan) = Cardinality(GraphNames(graph.branches) \cup {PlanStartBranch})
  /\ Len(plan) >= 2

\* ----------------------------------------------------------------- C30
\* C30: on every graph and for every branch b on which find_stack_root
\* returns, the result r satisfies find_stack_root(r) = r; r is b when b
\* is the trunk or is not tracked; otherwise r is a tracked branch that no
\* tracked branch lists as a child, or whose parent is the trunk.
C30_StackRootIsFixedPoint ==
  \A b \in Names \cup {graph.trunk} :
    LET r == find_stack_root(b, graph)
    IN r # Diverges =>
         /\ find_stack_root(r, graph) = r
         /\ b = graph.trunk \/ b \notin BranchKeys(graph.branches) => r = b
         /\ b # graph.trunk /\ b \in BranchKeys(graph.branches) =>
              /\ r \in BranchKeys(graph.branches)
              /\ find_parent(r, graph.branches) \in {NoneStr, graph.trunk}

\* a start_from_root run has resolved a stacked branch to its root
C30_Witness ==
  /\ PlanBuilt /\ StartFromRoot
  /\ start_branch \in BranchKeys(graph.branches)
  /\ find_stack_root(start_branch, graph) \notin {start_branch, Diverges}
  /\ plan[1].branch = find_stack_root(start_branch, graph)


\* ------------------------- specification: two overlapping invocations
\* One `sd add` whose load and save are separate steps, interleaved with
\* plain runs and resumes of the engine on the stack main <- A.
\* MetadataManager.save_graph with a writer that keeps a Checkpoint found
\* in the file when the caller's Graph has none
save_graph_keeping_checkpoint(data, branches_on_disk, resume_on_disk) ==
  [branches |-> data.branches,
   resume_state |-> IF data.resume_state = NoResume THEN resume_on_disk
                    ELSE saved_resume(data)]

\* MetadataManager.save_graph: json.dump of the caller's Graph over the
\* whole file, whatever the file holds
save_graph(data, branches_on_disk, resume_on_disk) ==
  [branches |-> data.branches, resume_state |-> saved_resume(data)]

\* handle_add up to git.create_branch: the graph is loaded, then
\* `git checkout -b branch_name parent_branch`
AddLoad(branch_name) ==
  /\ add_proc = NoAdd
  /\ branch_name \notin BranchKeys(disk_branches) \cup {Trunk, head}
  /\ add_proc' = <<[graph |-> load_graph(disk_branches, disk_resume),
                    parent_branch |-> head,
                    branch_name |-> branch_name,
                    saved |-> FALSE]>>
  /\ head' = branch_name
  /\ local_branches' = local_branches \cup {branch_name}
  /\ UNCHANGED <<diskVars, pc, frameVars, loopVars, exit_code, exit_at, log,
                 histVars, git_operation, file_damage, backup_file>>
  /\ UNCHANGED executed

\* handle_add from `if parent_branch != graph.trunk` to mm.save_graph(graph)
AddSave ==
  /\ add_proc # NoAdd
  /\ ~add_proc[1].saved
  /\ LET a == add_proc[1]
         data == [a.graph EXCEPT !.branches =
                    add_branch(a.graph.branches, a.graph.trunk,
                               a.parent_branch, a.branch_name)]
         written == save_graph(data, disk_branches, disk_resume)
     IN /\ disk_branches' = written.branches
        /\ disk_resume' = written.resume_state
  /\ add_proc' = <<[add_proc[1] EXCEPT !.saved = TRUE]>>
  /\ UNCHANGED <<head, pc, frameVars, loopVars, exit_code, exit_at, log,
                 histVars, git_operation, file_damage, backup_file,
                 local_branches>>
  /\ UNCHANGED executed

\* `sd run "make test"`, `sd run --continue`, `sd run --abort`
TwoRunInputs ==
  {inp \in PlainRunInputs : inp.args.pre_flight_cmd = NoneStr}
  \cup {inp \in PlainResumeInputs :
          inp.args.continue_run \in {NoneStr, TrueFlag}
          /\ inp.args.abort_run \in {NoneStr, TrueFlag}}

InitTwo == InitAt(add_branch(<<>>, Trunk, Trunk, "A"), "A")

NextTwo ==
  \/ \E inp \in TwoRunInputs : StartRun(inp)
  \/ BuildPlan
  \/ \E success \in BOOLEAN : Checkout(success)
  \/ \E success \in BOOLEAN : UserCommand(success)
  \/ \E success \in BOOLEAN : Cleanup(success)
  \/ \E b \in Names : AddLoad(b)
  \/ AddSave

SpecTwo == InitTwo /\ [][NextTwo]_vars

\* the step in which the overlapping `sd add` writes the file
AddSaves ==
  /\ add_proc # NoAdd /\ ~add_proc[1].saved
  /\ add_proc' # NoAdd /\ add_proc'[1].saved

\* the step in which a new run writes the graph it loaded at its start
RunSavesGraph == pc = "plan" /\ plan' # <<>>

\* C22: overlapping invocations are not isolated: a save replaces the
\* whole file by the saver's own view, loaded earlier, so what another
\* invocation wrote between that load and the save is lost; the file
\* after an `sd add` saves holds the branches the add loaded plus its own
\* and the Checkpoint the add loaded (none, if a run failed only after the
\* load), and after a run's save before its first step it holds the graph
\* the run loaded.
C22_LaterSaverWins ==
  /\ [][AddSaves =>
          /\ disk_branches' = add_branch(add_proc[1].graph.branches, Trunk,
                                         add_proc[1].parent_branch,
                                         add_proc[1].branch_name)
          /\ disk_resume' = saved_resume(add_proc[1].graph)]_vars
  /\ [][RunSavesGraph =>
          /\ disk_branches' = graph.branches
          /\ disk_resume' = saved_resume(graph)]_vars

\* a run failed a step and exited 1 after writing its Checkpoint, and the
\* add that had loaded before the failure has saved since: no Checkpoint
C22_Witness ==
  /\ pc = "idle" /\ exit_at = "step_failed" /\ exit_code = 1
  /\ add_proc # NoAdd /\ add_proc[1].saved
  /\ add_proc[1].graph.resume_state = NoResume
  /\ disk_resume = NoResume


\* ------------------------------ specification: the entry of every command
\* main() from the git-state check to the handler's load of the metadata
\* file, with git operations begun and ended by hand and the file damaged
\* by hand between invocations.
\* check_git_state: the markers it looks for under .git
GitOperations == {"rebase", "merge", "cherry-pick", "revert"}

\* the damaged files: text that is no JSON; JSON whose branch entries lack
\* fields or have unknown ones; JSON that is no object (or whose
\* "branches" is none); bytes that are no UTF-8
FileDamages == {"invalid_json", "wrong_fields", "not_an_object", "undecodable"}

\* main(): is_continue_abort looks at the first argument after the
\* command name only; on the command lines of AliasResumeInputs the
\* KEY=VALUE pairs stand before the flag
main_is_continue_abort(inp) ==
  (IsContinue(inp.args) \/ IsAbort(inp.args)) /\ DOMAIN inp.argv_env = {}

\* check_git_state: TRUE when it returns, FALSE when it exits 1
check_git_state(operation) == operation = "none"

\* MetadataManager.load_graph on a damaged file: json.JSONDecodeError,
\* KeyError and TypeError are caught (the file is renamed to the backup
\* name, exit 1); AttributeError and UnicodeDecodeError are not
load_graph_backs_up(damage) == damage \in {"invalid_json", "wrong_fields"}

\* history kept across an invocation that ends before its handler's frame
FailedBranchCarried ==
  IF disk_resume = NoResume THEN NoneStr
  ELSE IF exit_at = "step_failed" THEN action.branch
  ELSE failed_branch

\* an invocation that exits with code 1 before its handler has a graph
Refused(a, ad, pairs, at) ==
  /\ args' = a
  /\ alias_def' = ad
  /\ graph' = load_graph(<<>>, NoResume)
  /\ resume_state' = NoResume
  /\ SetFrame(NoFrame)
  /\ remediation_cmd' = NoneStr
  /\ ResetLoop
  /\ log' = <<>>
  /\ Exit(1, at)
  /\ pre_head' = head
  /\ failed_branch' = FailedBranchCarried
  /\ pre_resume' = disk_resume
  /\ pre_branches' = disk_branches
  /\ argv_env' = pairs
  /\ executed' = ExecutedCarried
  /\ UNCHANGED <<head, add_proc, git_operation, local_branches>>

\* the handler's mm.load_graph() fails on the damaged file
LoadDamaged(a, ad, pairs) ==
  IF load_graph_backs_up(file_damage)
  THEN /\ Refused(a, ad, pairs, "corrupt_metadata")
       /\ backup_file' = TRUE
       /\ file_damage' = "ok"        \* the file is gone: renamed
       /\ UNCHANGED diskVars
  ELSE /\ Refused(a, ad, pairs, "load_crashed")
       /\ UNCHANGED <<diskVars, file_damage, backup_file>>

\* main() for `sd run ...` and `sd <alias> ...`
Main(inp) ==
  /\ pc = "idle"
  /\ IF ~main_is_continue_abort(inp) /\ ~check_git_state(git_operation)
     THEN /\ Refused(inp.args, inp.alias_def, inp.argv_env, "git_state")
          /\ UNCHANGED <<diskVars, file_damage, backup_file>>
     ELSE IF file_damage # "ok"
     THEN LoadDamaged(inp.args, inp.alias_def, inp.argv_env)
     ELSE StartRun(inp)

\* main() for `sd add <branch_name>`
MainAdd(branch_name) ==
  /\ pc = "idle"
  /\ branch_name \notin BranchKeys(disk_branches)
  /\ IF ~check_git_state(git_operation)
     THEN /\ Refused(NoArgs, NoAlias, EmptyEnv, "git_state")
          /\ UNCHANGED <<diskVars, file_damage, backup_file>>
     ELSE IF file_damage # "ok"
     THEN LoadDamaged(NoArgs, NoAlias, EmptyEnv)
     ELSE Add(branch_name)

\* what every step of the operator between two invocations leaves behind
BetweenInvocations ==
  /\ pc = "idle"
  /\ ForgetProcess
  /\ exit_at' = "git"
  /\ pre_head' = head
  /\ failed_branch' = FailedBranchCarried
  /\ pre_resume' = disk_resume'
  /\ pre_branches' = disk_branches'
  /\ argv_env' = EmptyEnv
  /\ executed' = ExecutedCarried
  /\ UNCHANGED <<head, add_proc, local_branches>>

\* the operator starts a git operation that stops half-way (a conflict)
GitOperationBegins(operation) ==
  /\ git_operation = "none"
  /\ git_operation' = operation
  /\ UNCHANGED <<diskVars, file_damage, backup_file>>
  /\ BetweenInvocations

\* the operator completes or aborts it
GitOperationEnds ==
  /\ git_operation # "none"
  /\ git_operation' = "none"
  /\ UNCHANGED <<diskVars, file_damage, backup_file>>
  /\ BetweenInvocations

\* the metadata file is overwritten with something load_graph cannot take
DamageFile(damage) ==
  /\ file_damage = "ok"
  /\ file_damage' = damage
  /\ disk_branches' = <<>>
  /\ disk_resume' = NoResume
  /\ UNCHANGED <<git_operation, backup_file>>
  /\ BetweenInvocations

\* `sd run "make test"`, `sd update`, and
\* `sd update [REMOTE=origin] --continue` and `... --abort`: no command
\* here has a pre-flight or a post-flight
EntryInputs ==
  {inp \in PlainRunInputs : inp.args.pre_flight_cmd = NoneStr}
  \cup {inp \in AliasRunInputs :
          inp.args.command_name = "update" /\ DOMAIN inp.argv_env = {}}
  \cup AliasResumeInputs

InitEntry == InitAt(add_branch(<<>>, Trunk, Trunk, "A"), "A")

NextEntry ==
  \/ \E inp \in EntryInputs : Main(inp)
  \/ \E b \in Names : MainAdd(b)
  \/ \E operation \in GitOperations : GitOperationBegins(operation)
  \/ GitOperationEnds
  \/ \E damage \in FileDamages : DamageFile(damage)
  \/ \E b \in Names \cup {Trunk} : UserCheckout(b)
  \/ BuildPlan
  \/ \E success \in BOOLEAN : Checkout(success)
  \/ \E success \in BOOLEAN : UserCommand(success)
  \/ \E success \in BOOLEAN : Cleanup(success)
  \/ \E success \in BOOLEAN : Remediation(success)

SpecEntry == InitEntry /\ [][NextEntry]_vars

\* the last invocation got as far as loading the metadata file and found
\* it damaged
FoundDamaged == pc = "idle" /\ exit_at \in {"corrupt_metadata", "load_crashed"}

\* C23: an invocation that loads an unreadable or malformed metadata file
\* keeps the file under the backup name and exits with code 1, having run
\* no command, checked out no branch and built no plan.
C23_DamagedFileBackedUp ==
  FoundDamaged =>
    /\ exit_code = 1
    /\ backup_file
    /\ log = <<>> /\ head = pre_head /\ plan = <<>>

\* a process was invoked while the git operation was in progress
InvokedMidOperation ==
  git_operation # "none" /\ (pc # "idle" \/ Ended)

\* C24: while git is in the middle of a rebase, merge, cherry-pick or
\* revert, a command that is no --continue or --abort exits with code 1
\* without having loaded or changed the metadata, and a --continue or
\* --abort invocation is not turned away by the git-state check.
C24_GitStateGate ==
  /\ git_operation # "none" /\ pc = "idle" => exit_at # "add"
  /\ InvokedMidOperation =>
       IF IsContinue(args) \/ IsAbort(args)
       THEN ~(pc = "idle" /\ exit_at = "git_state")
       ELSE /\ pc = "idle" /\ exit_code = 1 /\ exit_at = "git_state"
            /\ log = <<>> /\ head = pre_head
            /\ disk_branches = pre_branches /\ disk_resume = pre_resume


\* ----------------------------------------------------------------- C31
ShellCommands ==
  SelectSeq(log, LAMBDA e : e.ev \in {"pre_flight", "user_command",
                                      "post_flight", "remediation"})

\* C31: in the custom environment composed for a new run a key given as
\* KEY=VALUE on the command line has the command line's value and a key
\* given only by the alias has the alias default; and every pre-flight,
\* step, post-flight and remediation command sees the value of the sd
\* process's own environment for each key that the custom environment and
\* the context variables leave unset, and the composed value for the rest.
C31_CliOverAliasOverAmbient ==
  /\ IsNewRun(args) /\ pc # "idle" =>
       \A key \in DOMAIN args.cli_env_vars \cup DOMAIN AliasEnvOf(alias_def) :
         /\ key \in DOMAIN custom_env_vars
         /\ custom_env_vars[key] =
              IF key \in DOMAIN args.cli_env_vars THEN args.cli_env_vars[key]
              ELSE AliasEnvOf(alias_def)[key]
  /\ \A i \in 1..Len(ShellCommands) :
       LET e == ShellCommands[i]
       IN /\ DOMAIN custom_env_vars \subseteq DOMAIN e.env
          /\ \A key \in DOMAIN os_environ \cup DOMAIN e.env :
               /\ key \in DOMAIN e.environ
               /\ e.environ[key] = IF key \in DOMAIN e.env THEN e.env[key]
                                   ELSE os_environ[key]

\* `sd sync REMOTE=origin` has run its pre-flight and a step: both saw the
\* command line's REMOTE, not the alias default nor the shell's, and the
\* shell's PATH
C31_Witness ==
  /\ IsNewRun(args)
  /\ "REMOTE" \in DOMAIN args.cli_env_vars
  /\ "REMOTE" \in DOMAIN AliasEnvOf(alias_def)
  /\ args.cli_env_vars["REMOTE"] # AliasEnvOf(alias_def)["REMOTE"]
  /\ \E i, j \in 1..Len(ShellCommands) :
       /\ ShellCommands[i].ev = "pre_flight"
       /\ ShellCommands[j].ev = "user_command"
       /\ ShellCommands[i].environ["REMOTE"] = args.cli_env_vars["REMOTE"]
       /\ ShellCommands[j].environ["REMOTE"] = args.cli_env_vars["REMOTE"]
       /\ ShellCommands[j].environ["PATH"] = os_environ["PATH"]


\* ------------------------ specification: the life of the tracked branches
\* `sd add`, `sd prune`, and the operator's `git checkout` and
\* `git branch -D`, in any order, from an empty graph, over three branch
\* names: the fewest with which a deleted branch can come back under
\* another tracked parent.
TrackedNames == {"A", "B", "C"}

\* handle_add whenever git can create the branch (`git checkout -b` fails
\* on an existing one and nothing is saved), a Checkpoint on disk or not
handle_add(branch_name) ==
  /\ pc = "idle"
  /\ branch_name \notin local_branches
  /\ head \in BranchKeys(disk_branches) =>
       Len(ChildrenOf(head, disk_branches)) < MaxChildren
  /\ LET g == load_graph(disk_branches, disk_resume)
     IN /\ disk_branches' = add_branch(g.branches, g.trunk, head, branch_name)
        /\ disk_resume' = saved_resume(g)
  /\ head' = branch_name
  /\ local_branches' = local_branches \cup {branch_name}
  /\ ForgetProcess
  /\ exit_at' = "add"
  /\ pre_head' = head
  /\ failed_branch' = FailedBranchCarried
  /\ pre_resume' = disk_resume
  /\ pre_branches' = disk_branches
  /\ argv_env' = EmptyEnv
  /\ executed' = ExecutedCarried
  /\ UNCHANGED <<add_proc, git_operation, file_damage, backup_file>>

\* handle_prune: Graph.branches without the tracked branches that do not
\* exist locally, as keys and as children
prune_branches(branches, local) ==
  LET branches_to_remove == BranchKeys(branches) \ local
      kept == SelectSeq(branches, LAMBDA meta : meta.name \notin branches_to_remove)
  IN [i \in 1..Len(kept) |->
        [name |-> kept[i].name,
         children |-> SelectSeq(kept[i].children,
                                LAMBDA child : child \notin branches_to_remove)]]

\* handle_prune: nothing is saved when nothing is to be removed
handle_prune ==
  /\ pc = "idle"
  /\ LET g == load_graph(disk_branches, disk_resume)
         branches_to_remove == BranchKeys(g.branches) \ local_branches
     IN IF branches_to_remove = {}
        THEN UNCHANGED diskVars
        ELSE /\ disk_branches' = prune_branches(g.branches, local_branches)
             /\ disk_resume' = saved_resume(g)
  /\ ForgetProcess
  /\ exit_at' = "prune"
  /\ pre_head' = head
  /\ failed_branch' = FailedBranchCarried
  /\ pre_resume' = disk_resume
  /\ pre_branches' = disk_branches
  /\ argv_env' = EmptyEnv
  /\ executed' = ExecutedCarried
  /\ UNCHANGED <<head, add_proc, git_operation, file_damage, backup_file,
                 local_branches>>

\* the operator deletes a local branch with git (never the checked-out one)
DeleteBranch(b) ==
  /\ b \in local_branches
  /\ b # head
  /\ local_branches' = local_branches \ {b}
  /\ pc = "idle"
  /\ ForgetProcess
  /\ exit_at' = "git"
  /\ pre_head' = head
  /\ failed_branch' = FailedBranchCarried
  /\ pre_resume' = disk_resume
  /\ pre_branches' = disk_branches
  /\ argv_env' = EmptyEnv
  /\ executed' = ExecutedCarried
  /\ UNCHANGED <<diskVars, head, add_proc, git_operation, file_damage,
                 backup_file>>

NextTracked ==
  \/ \E b \in TrackedNames : handle_add(b)
  \/ handle_prune
  \/ \E b \in TrackedNames \cup {Trunk} : DeleteBranch(b)
  \/ \E b \in TrackedNames \cup {Trunk} : UserCheckout(b)

SpecTracked == Init /\ [][NextTracked]_vars


\* ----------------------------------------------------------------- C32
\* the keys whose children list names b
ParentsOf(b, branches) ==
  {branches[i].name : i \in {j \in 1..Len(branches) : InSeq(b, branches[j].children)}}

RECURSIVE BelowAll(_, _)
\* S and everything listed, directly or not, under a key in S
BelowAll(S, branches) ==
  LET kids == {c \in GraphNames(branches) : ParentsOf(c, branches) \cap S # {}}
  IN IF kids \subseteq S THEN S ELSE BelowAll(S \cup kids, branches)

\* b is listed, directly or not, under itself
OnCycle(b, branches) ==
  b \in BelowAll({c \in GraphNames(branches) : b \in ParentsOf(c, branches)}, branches)

MultiParent == \E b \in BranchKeys(disk_branches) :
  Cardinality(ParentsOf(b, disk_branches)) > 1

TrunkTracked ==
  Trunk \in BranchKeys(disk_branches) \/ ParentsOf(Trunk, disk_branches) # {}

\* C32: after any sequence of adds, deletions of local git branches
\* outside the tool, and prunes, from an empty graph: every tracked branch
\* is in the children list of at most one branch, no branch is listed
\* under itself, and the trunk is neither a key nor a child.
C32_TrackedBranchesFormAForest ==
  /\ ~MultiParent
  /\ \A b \in GraphNames(disk_branches) : ~OnCycle(b, disk_branches)
  /\ ~TrunkTracked


\* --------------------------- specification: one operation and its resumes
\* Plain runs, with and without hooks, and their continues and aborts on
\* the stack main <- A <- B with A checked out, every command and checkout
\* succeeding or failing; the history of executed steps is kept.
\* `sd run "make test" [--pre-flight .. --post-flight ..]`,
\* `sd run --continue`, `sd run --abort`
OnceRunInputs ==
  PlainRunInputs
  \cup {inp \in PlainResumeInputs :
          inp.args.continue_run \in {NoneStr, TrueFlag}
          /\ inp.args.abort_run \in {NoneStr, TrueFlag}}

InitOnce ==
  InitWith(add_branch(add_branch(<<>>, Trunk, Trunk, "A"), Trunk, "A", "B"), "A",
           NothingExecuted)

NextOnce ==
  \/ \E inp \in OnceRunInputs : StartRun(inp)
  \/ \E success \in BOOLEAN : PreFlight(success)
  \/ BuildPlan
  \/ \E success \in BOOLEAN : Checkout(success)
  \/ \E success \in BOOLEAN : UserCommand(success)
  \/ \E success \in BOOLEAN : PostFlight(success)
  \/ \E success \in BOOLEAN : Cleanup(success)
  \/ \E success \in BOOLEAN : Remediation(success)

SpecOnce == InitOnce /\ [][NextOnce]_vars

\* ----------------------------------------------------------------- C33
\* C33: from the initial run through every later continue, until the
\* operation completes or is aborted, the user command runs at most once
\* on each branch.
C33_EachStepAtMostOnce == executed.again = {}


\* ------------------- specification: an operator who keeps on continuing
\* `sd run "make test" --pre-flight "make deps" --post-flight "make clean"`
\* on the stack main <- A <- B, then `sd run --continue` again and again;
\* every branch can be checked out and no remediation is needed, the user
\* command, the pre-flight and the post-flight succeed or fail freely.
LiveRunInputs ==
  {inp \in PlainRunInputs : Truthy(inp.args.post_flight_cmd)}
  \cup {inp \in PlainResumeInputs : inp.args.continue_run = TrueFlag}

\* the steps of a running sd process
ProcessStep ==
  \/ \E success \in BOOLEAN : PreFlight(success)
  \/ BuildPlan
  \/ Checkout(TRUE)
  \/ \E success \in BOOLEAN : UserCommand(success)
  \/ \E success \in BOOLEAN : PostFlight(success)
  \/ Cleanup(TRUE)
  \/ Remediation(TRUE)

\* the operator types `sd run --continue`
IssueContinue ==
  \E inp \in LiveRunInputs : IsContinue(inp.args) /\ StartRun(inp)

NextLive ==
  \/ \E inp \in LiveRunInputs : ~IsContinue(inp.args) /\ StartRun(inp)
  \/ IssueContinue
  \/ ProcessStep

\* a started process runs on to its exit, and the operator does not stop
\* typing continue
SpecLive ==
  InitOnce /\ [][NextLive]_vars /\ WF_vars(ProcessStep) /\ WF_vars(IssueContinue)

\* ----------------------------------------------------------------- C34
ProperSuffix(s, t) ==
  Len(s) < Len(t) /\ s = SubSeq(t, Len(t) - Len(s) + 1, Len(t))

\* the Checkpoint a step failure has just written is shorter than what
\* the process set out with
StepFailureShortens ==
  pc = "idle" /\ exit_at = "step_failed" =>
    /\ disk_resume # NoResume
    /\ IF pre_resume # NoResume
       THEN ProperSuffix(disk_resume[1].plan, pre_resume[1].plan)
       ELSE ProperSuffix(disk_resume[1].plan,
                         [i \in 1..Len(plan) |->
                            [branch |-> plan[i].branch, parent |-> plan[i].parent]])

Paused == pc = "idle" /\ disk_resume # NoResume

Completed == pc = "idle" /\ disk_resume = NoResume

\* C34: a step failure in a resumed run writes a Checkpoint whose
\* remaining plan is a proper suffix of the resumed Checkpoint's (of the
\* plan, in a fresh run), and an operator who keeps issuing continue, with
\* nothing to remedy, takes every paused operation to completion.
C34_ContinueReachesCompletion ==
  /\ []StepFailureShortens
  /\ Paused ~> Completed

\* ----------------------------------------------------------------- C35
FailedEvent(ev) ==
  /\ Len(log') = Len(log) + 1
  /\ log'[Len(log')].ev = ev
  /\ ~log'[Len(log')].ok

\* C35: when the checkout of a step fails the process exits with status 1
\* there and then: the user command is not run on that step, nothing is
\* written, and the Checkpoint in the file is the one the invocation found.
C35_FailedCheckoutLeavesCheckpoint ==
  [][pc = "checkout" /\ FailedEvent("checkout") =>
       /\ pc' = "idle"
       /\ exit_code' = 1
       /\ disk_resume' = disk_resume
       /\ disk_resume' = pre_resume'
       /\ disk_branches' = disk_branches]_vars

\* a continue whose step could not be checked out has exited, the
\* Checkpoint it resumed still in the file
C35_Witness ==
  /\ pc = "idle"
  /\ exit_at = "checkout_failed"
  /\ IsContinue(args)
  /\ Len(log) > 0
  /\ log[Len(log)].ev = "checkout"
  /\ ~log[Len(log)].ok
  /\ disk_resume # NoResume

\* ----------------------------------------------------------------- C36
\* C36: when cleanup cannot check out start_branch the failure is only a
\* warning: the Checkpoint is cleared all the same and sd exits 0.
C36_CleanupCheckoutFailureIsWarning ==
  [][pc = "cleanup" /\ FailedEvent("cleanup_checkout") =>
       /\ disk_resume' = NoResume
       /\ exit_code' = 0]_vars


\* ------------------ specification: adds and prunes while a run is paused
\* plain runs and resumes on the stack main <- A <- B, A checked out, and
\* between the invocations `sd add`, `sd prune` and `git branch -D`.
InitPause ==
  InitAt(add_branch(add_branch(<<>>, Trunk, Trunk, "A"), Trunk, "A", "B"), "A")

PauseRunInputs ==
  {inp \in PlainRunInputs : ~Truthy(inp.args.post_flight_cmd)}
  \cup {inp \in PlainResumeInputs : inp.args.continue_run = TrueFlag}

NextPause ==
  \/ \E inp \in PauseRunInputs : StartRun(inp)
  \/ BuildPlan
  \/ \E success \in BOOLEAN : Checkout(success)
  \/ \E success \in BOOLEAN : UserCommand(success)
  \/ Cleanup(TRUE)
  \/ Remediation(TRUE)
  \/ handle_add("C")
  \/ handle_prune
  \/ \E b \in {"B", "C"} : DeleteBranch(b)

SpecPause == InitPause /\ [][NextPause]_vars

\* ----------------------------------------------------------------- C37
AddOrPrune == handle_add("C") \/ handle_prune

\* C37: `sd add` and `sd prune` run whether or not a Checkpoint exists and
\* leave it in the file exactly as it was; they change nothing but the
\* branches.
C37_AddAndPruneKeepCheckpoint ==
  [][AddOrPrune => disk_resume' = disk_resume]_vars

\* a prune has just removed a branch while a run is paused
C37_Witness ==
  /\ pc = "idle"
  /\ exit_at = "prune"
  /\ disk_resume # NoResume
  /\ pre_resume # NoResume
  /\ disk_branches # pre_branches

\* ----------------------------------------------------------------- C38
\* C38: on a well-formed forest, for every start branch, the plan built
\* with descendants_only is the plan built without it less its first step.
C38_DescendantsOnlyDropsFirstStep ==
  PlanBuilt /\ WellFormed(graph.branches) =>
    /\ \A b \in Names \cup {graph.trunk} :
         build_traversal_plan(b, graph, TRUE)
           = Tail(build_traversal_plan(b, graph, FALSE))
    /\ plan = IF DescendantsOnly
              THEN Tail(build_traversal_plan(PlanStartBranch, graph, FALSE))
              ELSE build_traversal_plan(PlanStartBranch, graph, FALSE)

\* `sd update`-like run on a well-formed forest: a descendants_only plan
\* of two steps or more
C38_Witness ==
  /\ PlanBuilt
  /\ WellFormed(graph.branches)
  /\ DescendantsOnly
  /\ Len(plan) >= 2

\* ----------------------------------------------------------------- C39
ParentOrTrunk(b, g) ==
  IF find_parent(b, g.branches) # NoneStr THEN find_parent(b, g.branches) ELSE g.trunk

\* C39 as stated: on a well-formed forest every step's parent is
\* find_parent(branch), or the trunk when there is none, and a parent that
\* is itself a step of the plan is an earlier step.
C39_ParentIsEarlierStep ==
  PlanBuilt /\ WellFormed(graph.branches) =>
    \A i \in 1..Len(plan) :
      /\ plan[i].parent = ParentOrTrunk(plan[i].branch, graph)
      /\ \A j \in 1..Len(plan) : plan[j].branch = plan[i].parent => j < i

\* C39 amended: the same, except for the trunk's own step; a run started
\* on the trunk has (trunk, trunk) as its first step, so there
\* SD_PARENT_BRANCH names the branch being processed.
C39_ParentIsEarlierStepExceptTrunk ==
  PlanBuilt /\ WellFormed(graph.branches) =>
    \A i \in 1..Len(plan) :
      /\ plan[i].parent = ParentOrTrunk(plan[i].branch, graph)
      /\ \A j \in 1..Len(plan) :
           plan[j].branch = plan[i].parent =>
             \/ j < i
             \/ i = 1 /\ j = 1 /\ plan[1].branch = graph.trunk

\* a run started on the trunk of a well-formed forest with a stack
C39_Witness ==
  /\ PlanBuilt
  /\ WellFormed(graph.branches)
  /\ Len(plan) >= 3
  /\ plan[1] = PlanAction(graph.trunk, graph.trunk)
  /\ plan[3].parent = plan[2].branch

====
